---- MODULE Spec2Model ----
(***************************************************************************)
(* Model of the data-cleaning commands of ftva_lab_data                    *)
(* (management/commands): clean_imported_data, clean_tape_info,            *)
(* extract_inventory_numbers, the status classifier of the import commands *)
(* and set_empty_inv_no_status.                                            *)
(*                                                                         *)
(* A string is a sequence of one-character strings, so that strip(),       *)
(* truthiness, concatenation and regular-expression matching are computed  *)
(* on the characters, as the Python code computes them.  The record store  *)
(* is the sequence of SheetImport rows in ascending id (the order every    *)
(* pass iterates in: objects.all().order_by("id")).  arg and out are the   *)
(* argument and the returned value of a function called on its own.        *)
(***************************************************************************)
EXTENDS Integers, Sequences, FiniteSets, TLC

VARIABLES store, before, start, last, ret, pc, run, trace, dry_run, catalog, arg, out

vars == <<store, before, start, last, ret, pc, run, trace, dry_run, catalog, arg, out>>

(***************************************************************************)
(* Bounds of the model.                                                    *)
(***************************************************************************)
MaxRecords == 3
MaxRuns == 2

(***************************************************************************)
(* String values.                                                          *)
(***************************************************************************)
EMPTY == <<>>
SPACE == <<" ">>
\* Python's None for the carried values; differs from every string.
None == <<"<None>">>

HEADER_FOLDER_NAME == <<"F", "i", "l", "e", " ", "F", "o", "l", "d", "e", "r", " ", "N", "a", "m", "e">>
DIGITAL_LAB == <<"D", "i", "g", "i", "t", "a", "l", " ", "L", "a", "b">>
NEEDS_REVIEW == "Needs review"

\* Values used to populate the stores the model starts from.
DL1 == <<"D", "i", "g", "i", "t", "a", "l", " ", "L", "a", "b", " ", "1">>
DL2 == <<"D", "i", "g", "i", "t", "a", "l", "L", "a", "b", " ", "2">>
LOWER5 == <<"d", "i", "g", "i", "t", "a", "l", " ", "l", "a", "b", " ", "5">>
DRIVE_PADDED == <<"H", "D", " ">>
FOLDER1 == <<"f", "1">>
FOLDER2 == <<"f", "2">>
SUB1 == <<"s">>
FILE1 == <<"n">>
FILE_NOTE == <<"n", "[", "x", "]">>
TAPE_A1 == <<"A", "1">>
TAPE_A2 == <<"A", "2">>
TAPE_B1 == <<"B", "1">>
TAPE_B2 == <<"B", "2">>
NOTE1 == <<"z">>

Digits == {"0", "1", "2", "3", "4", "5", "6", "7", "8", "9"}
Whitespace == {" ", "\t"}

(***************************************************************************)
(* Python string primitives.                                               *)
(***************************************************************************)
\* bool(s) for a str or None.
Truthy(s) == s # None /\ s # EMPTY

StartsWith(s, p) == Len(s) >= Len(p) /\ SubSeq(s, 1, Len(p)) = p

\* str.strip(): drop the leading and trailing whitespace.
Strip(s) ==
  LET nonws == {i \in 1..Len(s) : s[i] \notin Whitespace}
  IN  IF nonws = {} THEN EMPTY
      ELSE LET lo == CHOOSE i \in nonws : \A j \in nonws : i <= j
               hi == CHOOSE i \in nonws : \A j \in nonws : j <= i
           IN  SubSeq(s, lo, hi)

\* Mutant: the pattern compiled with re.IGNORECASE.
MatchesDriveMarker_ignorecase(s) ==
  \E opt \in {EMPTY, SPACE} :
    LET prefix == <<"D", "i", "g", "i", "t", "a", "l">> \o opt \o <<"L", "a", "b", " ">>
        lower == <<"d", "i", "g", "i", "t", "a", "l">> \o opt \o <<"l", "a", "b", " ">>
        upper == <<"D", "I", "G", "I", "T", "A", "L">> \o opt \o <<"L", "A", "B", " ">>
    IN  /\ Len(s) > Len(prefix)
        /\ \A i \in 1..Len(prefix) : s[i] \in {lower[i], upper[i]}
        /\ s[Len(prefix) + 1] \in Digits

\* re.match("Digital[ ]?Lab [0-9]", s): anchored at the start, case-sensitive.
MatchesDriveMarker(s) ==
  \E opt \in {EMPTY, SPACE} :
    LET prefix == <<"D", "i", "g", "i", "t", "a", "l">> \o opt \o <<"L", "a", "b", " ">>
    IN  /\ StartsWith(s, prefix)
        /\ Len(s) > Len(prefix)
        /\ s[Len(prefix) + 1] \in Digits

\* field__regex = r"\[.*?\]": the value contains "[" and a later "]".
HasInlineNote(s) ==
  \E i \in 1..Len(s) : \E j \in (i + 1)..Len(s) : s[i] = "[" /\ s[j] = "]"

(***************************************************************************)
(* Records.  The string fields are kept in the order of the model class,   *)
(* which is the order _get_combined_field_data joins them in; notes stands *)
(* for the free-text fields after inventory_number, which no command reads *)
(* except through the combined string.  status is the set of ItemStatus    *)
(* names.                                                                  *)
(***************************************************************************)
Row(hd, ca, cal, cb, ffn, sub, fn, nt) ==
  [hard_drive_name |-> hd, carrier_a |-> ca, carrier_a_location |-> cal,
   carrier_b |-> cb, carrier_b_location |-> EMPTY, file_folder_name |-> ffn,
   sub_folder_name |-> sub, file_name |-> fn, inventory_number |-> EMPTY,
   notes |-> nt, status |-> {}]

WithId(row, i) ==
  [id |-> i, hard_drive_name |-> row.hard_drive_name, carrier_a |-> row.carrier_a,
   carrier_a_location |-> row.carrier_a_location, carrier_b |-> row.carrier_b,
   carrier_b_location |-> row.carrier_b_location,
   file_folder_name |-> row.file_folder_name, sub_folder_name |-> row.sub_folder_name,
   file_name |-> row.file_name, inventory_number |-> row.inventory_number,
   notes |-> row.notes, status |-> row.status]

is_header_record(record) == record.file_folder_name = HEADER_FOLDER_NAME

\* The argument is a set holding the record, or the empty set for Python's None.
get_carrier_info(record) ==
  IF record # {}
  THEN LET r == CHOOSE x \in record : TRUE IN <<r.carrier_a, r.carrier_b>>
  ELSE <<EMPTY, EMPTY>>

\* Mutant: file_name is left out of the combined fields.
get_combined_field_data_no_file_name(record) ==
  Strip(record.hard_drive_name \o record.carrier_a \o record.carrier_a_location
        \o record.carrier_b \o record.carrier_b_location \o record.file_folder_name
        \o record.sub_folder_name \o record.inventory_number \o record.notes)

\* Mutant: the combined string is returned without strip().
get_combined_field_data_unstripped(record) ==
  record.hard_drive_name \o record.carrier_a \o record.carrier_a_location
  \o record.carrier_b \o record.carrier_b_location \o record.file_folder_name
  \o record.sub_folder_name \o record.file_name \o record.inventory_number
  \o record.notes

get_combined_field_data(record) ==
  Strip(record.hard_drive_name \o record.carrier_a \o record.carrier_a_location
        \o record.carrier_b \o record.carrier_b_location \o record.file_folder_name
        \o record.sub_folder_name \o record.file_name \o record.inventory_number
        \o record.notes)

is_empty_record(record) == get_combined_field_data(record) = EMPTY

has_file_info(record) ==
  (record.file_folder_name \o record.sub_folder_name \o record.file_name) # EMPTY

(***************************************************************************)
(* Store primitives: record.save() and record.delete() act on the row with *)
(* the record's id; the rows stay in ascending id.                         *)
(***************************************************************************)
Save(st, record) ==
  [k \in 1..Len(st) |-> IF st[k].id = record.id THEN record ELSE st[k]]

Delete(st, record) == SelectSeq(st, LAMBDA r : r.id # record.id)

Result(st, n) == [store |-> st, count |-> n, error |-> FALSE]

(***************************************************************************)
(* Pass A.  records is the query result the loop iterates over, acc the    *)
(* store and the counter as the loop leaves them.                          *)
(***************************************************************************)
RECURSIVE scan_empty_records(_, _, _)
scan_empty_records(records, i, acc) ==
  IF i > Len(records) THEN acc
  ELSE IF is_empty_record(records[i])
       THEN scan_empty_records(records, i + 1,
                               Result(Delete(acc.store, records[i]), acc.count + 1))
       ELSE scan_empty_records(records, i + 1, acc)

\* Mutant: the loop walks the live table by position, so a deletion shifts the
\* following record past the cursor.
RECURSIVE scan_empty_records_live(_, _, _)
scan_empty_records_live(st, i, n) ==
  IF i > Len(st) THEN Result(st, n)
  ELSE IF is_empty_record(st[i])
       THEN scan_empty_records_live(Delete(st, st[i]), i + 1, n + 1)
       ELSE scan_empty_records_live(st, i + 1, n)

delete_empty_records_live_iteration(st) == scan_empty_records_live(st, 1, 0)

\* Mutant: the pass counts the empty records and deletes none of them.
delete_empty_records_detect_only(st) ==
  Result(st, Len(SelectSeq(st, is_empty_record)))

delete_empty_records(st) == scan_empty_records(st, 1, Result(st, 0))

(***************************************************************************)
(* Pass B.                                                                 *)
(***************************************************************************)
RECURSIVE scan_hard_drive_names(_, _, _, _)
scan_hard_drive_names(records, i, current_drive_name, acc) ==
  IF i > Len(records) THEN acc
  ELSE LET record == records[i] IN
    IF is_empty_record(record)
    THEN scan_hard_drive_names(records, i + 1, current_drive_name, acc)
    ELSE IF MatchesDriveMarker(record.hard_drive_name)
    THEN scan_hard_drive_names(records, i + 1, record.hard_drive_name, acc)
    ELSE IF is_header_record(record)
    THEN scan_hard_drive_names(records, i + 1, None, acc)
    ELSE IF Truthy(current_drive_name)
    THEN scan_hard_drive_names(records, i + 1, current_drive_name,
           Result(Save(acc.store, [record EXCEPT !.hard_drive_name = current_drive_name]),
                  acc.count + 1))
    ELSE scan_hard_drive_names(records, i + 1, current_drive_name, acc)

\* Mutant: a header record does not clear the carried drive name.
RECURSIVE scan_hard_drive_names_no_reset(_, _, _, _)
scan_hard_drive_names_no_reset(records, i, current_drive_name, acc) ==
  IF i > Len(records) THEN acc
  ELSE LET record == records[i] IN
    IF is_empty_record(record)
    THEN scan_hard_drive_names_no_reset(records, i + 1, current_drive_name, acc)
    ELSE IF MatchesDriveMarker(record.hard_drive_name)
    THEN scan_hard_drive_names_no_reset(records, i + 1, record.hard_drive_name, acc)
    ELSE IF ~is_header_record(record) /\ Truthy(current_drive_name)
    THEN scan_hard_drive_names_no_reset(records, i + 1, current_drive_name,
           Result(Save(acc.store, [record EXCEPT !.hard_drive_name = current_drive_name]),
                  acc.count + 1))
    ELSE scan_hard_drive_names_no_reset(records, i + 1, current_drive_name, acc)

set_hard_drive_names_no_reset(st) ==
  scan_hard_drive_names_no_reset(st, 1, None, Result(st, 0))

\* Mutant: the records are visited in descending id, order_by("-id").
set_hard_drive_names_descending(st) ==
  scan_hard_drive_names([i \in 1..Len(st) |-> st[Len(st) + 1 - i]], 1, None, Result(st, 0))

set_hard_drive_names(st) == scan_hard_drive_names(st, 1, None, Result(st, 0))

(***************************************************************************)
(* Pass C.                                                                 *)
(***************************************************************************)
RECURSIVE scan_file_folder_names(_, _, _, _)
scan_file_folder_names(records, i, current_file_folder_name, acc) ==
  IF i > Len(records) THEN acc
  ELSE LET record == records[i] IN
    IF is_empty_record(record)
    THEN scan_file_folder_names(records, i + 1, current_file_folder_name, acc)
    ELSE IF is_header_record(record)
    THEN scan_file_folder_names(records, i + 1, None, acc)
    ELSE IF Truthy(record.file_folder_name)
    THEN scan_file_folder_names(records, i + 1, record.file_folder_name, acc)
    ELSE IF Truthy(current_file_folder_name) /\ has_file_info(record)
    THEN scan_file_folder_names(records, i + 1, current_file_folder_name,
           Result(Save(acc.store,
                       [record EXCEPT !.file_folder_name = current_file_folder_name]),
                  acc.count + 1))
    ELSE scan_file_folder_names(records, i + 1, current_file_folder_name, acc)

\* Mutant: a header record is treated like any record with a folder name, so
\* the header literal is carried.
RECURSIVE scan_file_folder_names_header_carried(_, _, _, _)
scan_file_folder_names_header_carried(records, i, current_file_folder_name, acc) ==
  IF i > Len(records) THEN acc
  ELSE LET record == records[i] IN
    IF is_empty_record(record)
    THEN scan_file_folder_names_header_carried(records, i + 1, current_file_folder_name, acc)
    ELSE IF Truthy(record.file_folder_name)
    THEN scan_file_folder_names_header_carried(records, i + 1, record.file_folder_name, acc)
    ELSE IF Truthy(current_file_folder_name) /\ has_file_info(record)
    THEN scan_file_folder_names_header_carried(records, i + 1, current_file_folder_name,
           Result(Save(acc.store,
                       [record EXCEPT !.file_folder_name = current_file_folder_name]),
                  acc.count + 1))
    ELSE scan_file_folder_names_header_carried(records, i + 1, current_file_folder_name, acc)

set_file_folder_names_header_carried(st) ==
  scan_file_folder_names_header_carried(st, 1, None, Result(st, 0))

set_file_folder_names(st) == scan_file_folder_names(st, 1, None, Result(st, 0))

(***************************************************************************)
(* Pass D.                                                                 *)
(***************************************************************************)
\* Mutant: the query does not exclude the records located in "Digital Lab".
carrier_query_no_exclude(record) == record.hard_drive_name = EMPTY

\* filter(hard_drive_name="").exclude(carrier_a_location="Digital Lab")
carrier_query(record) ==
  record.hard_drive_name = EMPTY /\ record.carrier_a_location # DIGITAL_LAB

RECURSIVE scan_carrier_info(_, _, _, _)
scan_carrier_info(records, i, prev, acc) ==
  IF i > Len(records) THEN acc
  ELSE LET record == records[i]
           carrier == get_carrier_info({record})
       IN
    IF is_empty_record(record) THEN scan_carrier_info(records, i + 1, prev, acc)
    ELSE IF is_header_record(record) THEN scan_carrier_info(records, i + 1, prev, acc)
    ELSE IF Truthy(carrier[1]) /\ Truthy(carrier[2])
    THEN scan_carrier_info(records, i + 1, carrier, acc)
    ELSE IF Truthy(prev[1]) /\ Truthy(prev[2]) /\ has_file_info(record)
    THEN scan_carrier_info(records, i + 1, prev,
           Result(Save(acc.store,
                       [record EXCEPT
                          !.carrier_a = IF Truthy(record.carrier_a)
                                        THEN record.carrier_a ELSE prev[1],
                          !.carrier_b = IF Truthy(record.carrier_b)
                                        THEN record.carrier_b ELSE prev[2]]),
                  acc.count + 1))
    ELSE scan_carrier_info(records, i + 1, prev, acc)

\* Mutant: both carriers of the record are set from the carried pair, whether
\* blank or not.
RECURSIVE scan_carrier_info_overwrite(_, _, _, _)
scan_carrier_info_overwrite(records, i, prev, acc) ==
  IF i > Len(records) THEN acc
  ELSE LET record == records[i]
           carrier == get_carrier_info({record})
       IN
    IF is_empty_record(record) \/ is_header_record(record)
    THEN scan_carrier_info_overwrite(records, i + 1, prev, acc)
    ELSE IF Truthy(carrier[1]) /\ Truthy(carrier[2])
    THEN scan_carrier_info_overwrite(records, i + 1, carrier, acc)
    ELSE IF Truthy(prev[1]) /\ Truthy(prev[2]) /\ has_file_info(record)
    THEN scan_carrier_info_overwrite(records, i + 1, prev,
           Result(Save(acc.store,
                       [record EXCEPT !.carrier_a = prev[1], !.carrier_b = prev[2]]),
                  acc.count + 1))
    ELSE scan_carrier_info_overwrite(records, i + 1, prev, acc)

set_carrier_info_overwrite(st) ==
  scan_carrier_info_overwrite(SelectSeq(st, carrier_query), 1, get_carrier_info({}),
                              Result(st, 0))

set_carrier_info(st) ==
  scan_carrier_info(SelectSeq(st, carrier_query), 1, get_carrier_info({}), Result(st, 0))

(***************************************************************************)
(* Pass E.                                                                 *)
(***************************************************************************)
RECURSIVE scan_header_records(_, _, _)
scan_header_records(records, i, acc) ==
  IF i > Len(records) THEN acc
  ELSE IF is_header_record(records[i])
       THEN scan_header_records(records, i + 1,
                                Result(Delete(acc.store, records[i]), acc.count + 1))
       ELSE scan_header_records(records, i + 1, acc)

\* Mutant: the loop walks the live table by position, so the record after a
\* deleted header is skipped.
RECURSIVE scan_header_records_live(_, _, _)
scan_header_records_live(st, i, n) ==
  IF i > Len(st) THEN Result(st, n)
  ELSE IF is_header_record(st[i])
       THEN scan_header_records_live(Delete(st, st[i]), i + 1, n + 1)
       ELSE scan_header_records_live(st, i + 1, n)

delete_header_records_live_iteration(st) == scan_header_records_live(st, 1, 0)

delete_header_records(st) == scan_header_records(st, 1, Result(st, 0))

(***************************************************************************)
(* Pass F.                                                                 *)
(***************************************************************************)
RECURSIVE scan_hard_drive_only_records(_, _, _)
scan_hard_drive_only_records(records, i, acc) ==
  IF i > Len(records) THEN acc
  ELSE IF get_combined_field_data(records[i]) = records[i].hard_drive_name
       THEN scan_hard_drive_only_records(records, i + 1,
                                         Result(Delete(acc.store, records[i]), acc.count + 1))
       ELSE scan_hard_drive_only_records(records, i + 1, acc)

delete_hard_drive_only_records(st) == scan_hard_drive_only_records(st, 1, Result(st, 0))

(***************************************************************************)
(* Pass G.  statuses is the ItemStatus catalog; ItemStatus.objects.get     *)
(* raises DoesNotExist when the name is absent, before any record is       *)
(* touched.  The count is records.count(), a new evaluation of the query.  *)
(***************************************************************************)
inline_note_query(record) ==
  \/ HasInlineNote(record.file_folder_name)
  \/ HasInlineNote(record.sub_folder_name)
  \/ HasInlineNote(record.file_name)

\* Mutant: the status set of a matching record is replaced, not added to.
set_status_for_records_with_inline_notes_overwrite(st, statuses) ==
  IF NEEDS_REVIEW \notin statuses
  THEN [store |-> st, count |-> 0, error |-> TRUE]
  ELSE LET updated == [k \in 1..Len(st) |->
                         IF inline_note_query(st[k])
                         THEN [st[k] EXCEPT !.status = {NEEDS_REVIEW}]
                         ELSE st[k]]
       IN  Result(updated, Len(SelectSeq(updated, inline_note_query)))

\* Mutant: a missing status is swallowed and the pass reports no record.
set_status_for_records_with_inline_notes_swallowed(st, statuses) ==
  IF NEEDS_REVIEW \notin statuses
  THEN Result(st, 0)
  ELSE LET updated == [k \in 1..Len(st) |->
                         IF inline_note_query(st[k])
                         THEN [st[k] EXCEPT !.status = @ \cup {NEEDS_REVIEW}]
                         ELSE st[k]]
       IN  Result(updated, Len(SelectSeq(updated, inline_note_query)))

set_status_for_records_with_inline_notes(st, statuses) ==
  IF NEEDS_REVIEW \notin statuses
  THEN [store |-> st, count |-> 0, error |-> TRUE]
  ELSE LET updated == [k \in 1..Len(st) |->
                         IF inline_note_query(st[k])
                         THEN [st[k] EXCEPT !.status = @ \cup {NEEDS_REVIEW}]
                         ELSE st[k]]
       IN  Result(updated, Len(SelectSeq(updated, inline_note_query)))

(***************************************************************************)
(* Command.handle: the passes in the order of its statements.  options     *)
(* (here dry_run) is accepted by handle and never read.                    *)
(***************************************************************************)
PassOrder ==
  <<"delete_empty_records", "set_hard_drive_names", "set_file_folder_names",
    "set_carrier_info", "delete_header_records", "delete_hard_drive_only_records",
    "set_status_for_records_with_inline_notes">>

Passes == {PassOrder[k] : k \in 1..Len(PassOrder)}

PassIndex(p) == CHOOSE k \in 1..Len(PassOrder) : PassOrder[k] = p

\* Mutant: the header rows are deleted before the passes that read them.
next_pass_headers_first(p) ==
  LET order == <<"delete_empty_records", "delete_header_records", "set_hard_drive_names",
                 "set_file_folder_names", "set_carrier_info",
                 "delete_hard_drive_only_records",
                 "set_status_for_records_with_inline_notes">>
      k == CHOOSE j \in 1..Len(order) : order[j] = p
  IN  IF k = Len(order) THEN "done" ELSE order[k + 1]

\* The statement of handle that follows the call of pass p.
next_pass(p) ==
  IF PassIndex(p) = Len(PassOrder) THEN "done" ELSE PassOrder[PassIndex(p) + 1]

\* The ItemStatus catalog as seeded.
SEEDED_STATUSES == {"Needs review", "Invalid inv no", "Invalid vault"}

(***************************************************************************)
(* Initial stores: every sequence of at most MaxRecords rows drawn from a  *)
(* set of rows, with ids 1..n assigned in insertion order.                 *)
(***************************************************************************)
Numbered(f) == [k \in DOMAIN f |-> WithId(f[k], k)]

WithStatus(row, tags) == [row EXCEPT !.status = tags]

\* Rows of the orchestrator runs: drive markers, headers, data, carriers.
HandleRows ==
  {Row(hd, EMPTY, EMPTY, EMPTY, ffn, EMPTY, fn, EMPTY) :
     hd \in {EMPTY, DL1}, ffn \in {EMPTY, HEADER_FOLDER_NAME}, fn \in {EMPTY, FILE1}}
  \cup {Row(EMPTY, TAPE_A1, EMPTY, TAPE_B1, FOLDER1, EMPTY, FILE_NOTE, EMPTY),
        Row(EMPTY, EMPTY, EMPTY, EMPTY, EMPTY, SUB1, EMPTY, SPACE)}

InitWith(rows, catalogs) ==
  /\ \E n \in 0..MaxRecords : \E f \in [1..n -> rows] :
       /\ store = Numbered(f)
       /\ before = Numbered(f)
       /\ start = Numbered(f)
  /\ last = "none"
  /\ ret = 0
  /\ pc = "idle"
  /\ run = 0
  /\ trace = <<>>
  /\ dry_run = FALSE
  /\ catalog \in catalogs
  /\ arg = <<>>
  /\ out = <<>>

Init == InitWith(HandleRows, {SEEDED_STATUSES, SEEDED_STATUSES \ {NEEDS_REVIEW}})

\* manage.py clean_imported_data: handle starts; a finished or failed run can
\* be followed by another.
Invoke ==
  /\ pc \in {"idle", "done", "error"}
  /\ run < MaxRuns
  /\ \E d \in BOOLEAN : dry_run' = d
  /\ pc' = PassOrder[1]
  /\ run' = run + 1
  /\ start' = store
  /\ trace' = <<>>
  /\ UNCHANGED <<store, before, last, ret, catalog, arg, out>>

\* One statement pair of handle: the pass runs to its end and its count is
\* written; an exception raised by the pass leaves handle.
HandleStep(p, result) ==
  /\ before' = store
  /\ last' = p
  /\ IF result.error
     THEN /\ pc' = "error"
          /\ UNCHANGED <<store, ret, trace>>
     ELSE /\ store' = result.store
          /\ ret' = result.count
          /\ trace' = Append(trace, <<p, result.count>>)
          /\ pc' = next_pass(p)
  /\ UNCHANGED <<start, run, dry_run, catalog, arg, out>>

HandleDeleteEmptyRecords ==
  /\ pc = "delete_empty_records"
  /\ HandleStep("delete_empty_records", delete_empty_records(store))

HandleSetHardDriveNames ==
  /\ pc = "set_hard_drive_names"
  /\ HandleStep("set_hard_drive_names", set_hard_drive_names(store))

HandleSetFileFolderNames ==
  /\ pc = "set_file_folder_names"
  /\ HandleStep("set_file_folder_names", set_file_folder_names(store))

HandleSetCarrierInfo ==
  /\ pc = "set_carrier_info"
  /\ HandleStep("set_carrier_info", set_carrier_info(store))

HandleDeleteHeaderRecords ==
  /\ pc = "delete_header_records"
  /\ HandleStep("delete_header_records", delete_header_records(store))

HandleDeleteHardDriveOnlyRecords ==
  /\ pc = "delete_hard_drive_only_records"
  /\ HandleStep("delete_hard_drive_only_records", delete_hard_drive_only_records(store))

HandleSetStatusForInlineNotes ==
  /\ pc = "set_status_for_records_with_inline_notes"
  /\ HandleStep("set_status_for_records_with_inline_notes",
                set_status_for_records_with_inline_notes(store, catalog))

Next ==
  \/ Invoke
  \/ HandleDeleteEmptyRecords
  \/ HandleSetHardDriveNames
  \/ HandleSetFileFolderNames
  \/ HandleSetCarrierInfo
  \/ HandleDeleteHeaderRecords
  \/ HandleDeleteHardDriveOnlyRecords
  \/ HandleSetStatusForInlineNotes

Spec == Init /\ [][Next]_vars

(***************************************************************************)
(* The passes called on their own, as the tests call them: the function    *)
(* runs on the store as it is, returns its count, and can be called again. *)
(***************************************************************************)
Call(p, result) ==
  /\ pc = "idle"
  /\ before' = store
  /\ last' = p
  /\ IF result.error
     THEN /\ pc' = "error"
          /\ UNCHANGED <<store, ret>>
     ELSE /\ store' = result.store
          /\ ret' = result.count
          /\ pc' = pc
  /\ UNCHANGED <<start, run, trace, dry_run, catalog, arg, out>>

CallDeleteEmptyRecords ==
  Call("delete_empty_records", delete_empty_records(store))

CallSetHardDriveNames ==
  Call("set_hard_drive_names", set_hard_drive_names(store))

CallSetFileFolderNames ==
  Call("set_file_folder_names", set_file_folder_names(store))

CallSetCarrierInfo ==
  Call("set_carrier_info", set_carrier_info(store))

CallDeleteHeaderRecords ==
  Call("delete_header_records", delete_header_records(store))

CallDeleteHardDriveOnlyRecords ==
  Call("delete_hard_drive_only_records", delete_hard_drive_only_records(store))

CallSetStatusForInlineNotes ==
  Call("set_status_for_records_with_inline_notes",
       set_status_for_records_with_inline_notes(store, catalog))

\* One pass under test on any store: the pass is called, and called again.
PassRows ==
  HandleRows \cup {WithStatus(Row(EMPTY, EMPTY, EMPTY, EMPTY, EMPTY, SUB1, FILE_NOTE, EMPTY),
                              {"Invalid vault"}),
                   Row(EMPTY, TAPE_A2, EMPTY, EMPTY, EMPTY, EMPTY, FILE1, EMPTY),
                   Row(DRIVE_PADDED, EMPTY, EMPTY, EMPTY, EMPTY, EMPTY, EMPTY, EMPTY),
                   Row(LOWER5, EMPTY, EMPTY, EMPTY, FOLDER2, EMPTY, EMPTY, SPACE)}

InitPass == InitWith(PassRows, {SEEDED_STATUSES})

NextPass ==
  \/ last \in {"none", "delete_empty_records"} /\ CallDeleteEmptyRecords
  \/ last \in {"none", "set_hard_drive_names"} /\ CallSetHardDriveNames
  \/ last \in {"none", "set_file_folder_names"} /\ CallSetFileFolderNames
  \/ last \in {"none", "set_carrier_info"} /\ CallSetCarrierInfo
  \/ last \in {"none", "delete_header_records"} /\ CallDeleteHeaderRecords
  \/ last \in {"none", "delete_hard_drive_only_records"} /\ CallDeleteHardDriveOnlyRecords
  \/ last \in {"none", "set_status_for_records_with_inline_notes"}
       /\ CallSetStatusForInlineNotes

SpecPass == InitPass /\ [][NextPass]_vars

(***************************************************************************)
(* Each pass on stores drawn from the values its branches distinguish.     *)
(***************************************************************************)
\* Pass A: blank, whitespace-only and non-blank fields; status tags.
RowsA ==
  {WithStatus(Row(hd, EMPTY, EMPTY, EMPTY, EMPTY, EMPTY, fn, nt), tags) :
     hd \in {EMPTY, SPACE}, fn \in {EMPTY, FILE1}, nt \in {EMPTY, SPACE},
     tags \in {{}, {"Invalid vault"}}}

SpecA == InitWith(RowsA, {SEEDED_STATUSES}) /\ [][CallDeleteEmptyRecords]_vars

\* Pass B: both spellings of the drive marker, other drive names, headers.
RowsB ==
  {Row(hd, EMPTY, EMPTY, EMPTY, ffn, EMPTY, fn, EMPTY) :
     hd \in {EMPTY, DL1, DL2, LOWER5}, ffn \in {EMPTY, HEADER_FOLDER_NAME},
     fn \in {EMPTY, FILE1}}

SpecB == InitWith(RowsB, {SEEDED_STATUSES}) /\ [][CallSetHardDriveNames]_vars

\* Pass C: headers, two folder names, a whitespace folder name, rows with and
\* without file info.
RowsC ==
  {Row(EMPTY, EMPTY, EMPTY, EMPTY, ffn, info[1], info[2], EMPTY) :
     ffn \in {EMPTY, SPACE, HEADER_FOLDER_NAME, FOLDER1, FOLDER2},
     info \in {<<EMPTY, EMPTY>>, <<SUB1, EMPTY>>, <<EMPTY, FILE1>>}}
  \cup {Row(EMPTY, EMPTY, EMPTY, EMPTY, EMPTY, EMPTY, EMPTY, NOTE1)}

SpecC == InitWith(RowsC, {SEEDED_STATUSES}) /\ [][CallSetFileFolderNames]_vars

\* Pass D: full, partial and missing carriers; rows outside the query; a header.
RowsD ==
  {Row(EMPTY, ca, EMPTY, cb, EMPTY, EMPTY, fn, EMPTY) :
     ca \in {EMPTY, TAPE_A1, TAPE_A2}, cb \in {EMPTY, TAPE_B1}, fn \in {EMPTY, FILE1}}
  \cup {Row(LOWER5, TAPE_A2, EMPTY, TAPE_B2, EMPTY, EMPTY, FILE1, EMPTY),
        Row(EMPTY, TAPE_A2, DIGITAL_LAB, TAPE_B2, EMPTY, EMPTY, FILE1, EMPTY),
        Row(EMPTY, TAPE_A2, EMPTY, TAPE_B2, HEADER_FOLDER_NAME, EMPTY, EMPTY, EMPTY)}

SpecD == InitWith(RowsD, {SEEDED_STATUSES}) /\ [][CallSetCarrierInfo]_vars

\* Pass E: the header literal, other folder names, with and without other data.
RowsE ==
  {Row(hd, EMPTY, EMPTY, EMPTY, ffn, EMPTY, fn, EMPTY) :
     hd \in {EMPTY, DL1}, ffn \in {EMPTY, HEADER_FOLDER_NAME, FOLDER1},
     fn \in {EMPTY, FILE1}}

SpecE == InitWith(RowsE, {SEEDED_STATUSES}) /\ [][CallDeleteHeaderRecords]_vars

\* Pass F: drive names with and without padding, blank and non-blank other fields.
RowsF ==
  {Row(hd, EMPTY, EMPTY, EMPTY, EMPTY, EMPTY, fn, nt) :
     hd \in {EMPTY, DL1, DRIVE_PADDED}, fn \in {EMPTY, FILE1},
     nt \in {EMPTY, SPACE}}

SpecF == InitWith(RowsF, {SEEDED_STATUSES}) /\ [][CallDeleteHardDriveOnlyRecords]_vars

(***************************************************************************)
(* Vocabulary of the properties, stated on the characters of the fields    *)
(* and on positions in the store before the pass, not through the scans.   *)
(***************************************************************************)
\* Blank after trimming: no character other than whitespace.
Blank(s) == \A i \in 1..Len(s) : s[i] \in Whitespace

StringFields(r) ==
  {r.hard_drive_name, r.carrier_a, r.carrier_a_location, r.carrier_b,
   r.carrier_b_location, r.file_folder_name, r.sub_folder_name, r.file_name,
   r.inventory_number, r.notes}

OtherFields(r) ==
  {r.carrier_a, r.carrier_a_location, r.carrier_b, r.carrier_b_location,
   r.file_folder_name, r.sub_folder_name, r.file_name, r.inventory_number, r.notes}

EmptyRecord(r) == \A f \in StringFields(r) : Blank(f)

HeaderRecord(r) == r.file_folder_name = HEADER_FOLDER_NAME

Ids(st) == {st[k].id : k \in 1..Len(st)}

Max(S) == CHOOSE x \in S : \A y \in S : y <= x

\* The store keeps every record of `from` that satisfies Keep, unchanged and in order.
KeepsExactly(st, from, Keep(_)) == st = SelectSeq(from, Keep)

CountOf(p) ==
  LET ks == {k \in 1..Len(trace) : trace[k][1] = p}
  IN  IF ks = {} THEN 0 ELSE trace[Max(ks)][2]

(***************************************************************************)
(* C1: full-pipeline idempotence.  When handle runs again on the output of *)
(* a complete run, no pass of the second run changes the store: at every   *)
(* point of the second run the store equals the store the run started on.  *)
(***************************************************************************)
C1_PipelineIdempotent ==
  (run >= 2 /\ NEEDS_REVIEW \in catalog) => store = start

(***************************************************************************)
(* C2: per-pass idempotence.  A pass called again right after it returned  *)
(* leaves the store as its first call left it.                             *)
(***************************************************************************)
C2_PassIdempotent ==
  [][(last # "none" /\ last' = last) => store' = store]_vars

\* A pass changed the store, was called again, and the second call has returned.
C2_Witness ==
  /\ last = "set_carrier_info"
  /\ store # start
  /\ before = store

(***************************************************************************)
(* C3: one run of handle executes the passes once each in the order        *)
(* A, B, C, D, E, F, G: the passes completed so far are an initial part of *)
(* that order, the pass about to run is the next one of it, and the run    *)
(* is done only when all seven have completed.                             *)
(***************************************************************************)
C3_PassOrder ==
  LET order == <<"delete_empty_records", "set_hard_drive_names",
                 "set_file_folder_names", "set_carrier_info",
                 "delete_header_records", "delete_hard_drive_only_records",
                 "set_status_for_records_with_inline_notes">>
  IN  /\ Len(trace) <= 7
      /\ \A k \in 1..Len(trace) : trace[k][1] = order[k]
      /\ pc \notin {"idle", "done", "error"} => Len(trace) < 7 /\ pc = order[Len(trace) + 1]
      /\ pc = "done" => Len(trace) = 7
      /\ pc = "error" => Len(trace) = 6

\* A run has completed in which the header pass deleted a record after pass B
\* had propagated a drive name.
C3_Witness ==
  /\ pc = "done"
  /\ CountOf("set_hard_drive_names") > 0
  /\ CountOf("delete_header_records") > 0

DriveAnchors(st, k) ==
  {j \in 1..(k - 1) : MatchesDriveMarker(st[j].hard_drive_name) \/ HeaderRecord(st[j])}

CarriedDrive(st, k) ==
  IF DriveAnchors(st, k) = {} THEN None
  ELSE LET j == Max(DriveAnchors(st, k))
       IN  IF MatchesDriveMarker(st[j].hard_drive_name) THEN st[j].hard_drive_name
           ELSE None

DriveUpdated(st, k) ==
  /\ ~EmptyRecord(st[k])
  /\ ~MatchesDriveMarker(st[k].hard_drive_name)
  /\ ~HeaderRecord(st[k])
  /\ CarriedDrive(st, k) # None

C5_HardDriveNames ==
  last = "set_hard_drive_names" =>
    /\ Len(store) = Len(before)
    /\ \A k \in 1..Len(before) :
         store[k] = IF DriveUpdated(before, k)
                    THEN [before[k] EXCEPT !.hard_drive_name = CarriedDrive(before, k)]
                    ELSE before[k]
    /\ ret = Cardinality({k \in 1..Len(before) : DriveUpdated(before, k)})

\* Pass B has run on a store where a data row after two markers took the name
\* of the second, in a run that updated that row alone.
C5_Witness ==
  /\ last = "set_hard_drive_names"
  /\ ret = 1
  /\ Len(before) = 3
  /\ before[1].hard_drive_name = DL1
  /\ before[2].hard_drive_name = DL2
  /\ before[3].hard_drive_name = LOWER5
  /\ store[3].hard_drive_name = DL2

(***************************************************************************)
(* C6: pass C.  Blank means the empty string, as the code tests it.  A     *)
(* record is updated exactly when it is not empty, not a header, its       *)
(* file_folder_name is blank, its sub_folder_name or file_name is not, and *)
(* the nearest earlier non-empty record that is a header or has a          *)
(* file_folder_name is not a header; it receives that record's             *)
(* file_folder_name, which is never the header literal.  Nothing else      *)
(* changes and the count returned is the number updated.                   *)
(***************************************************************************)
FolderAnchors(st, k) ==
  {j \in 1..(k - 1) : ~EmptyRecord(st[j])
                      /\ (HeaderRecord(st[j]) \/ st[j].file_folder_name # EMPTY)}

CarriedFolder(st, k) ==
  IF FolderAnchors(st, k) = {} THEN None
  ELSE LET j == Max(FolderAnchors(st, k))
       IN  IF HeaderRecord(st[j]) THEN None ELSE st[j].file_folder_name

FolderUpdated(st, k) ==
  /\ ~EmptyRecord(st[k])
  /\ ~HeaderRecord(st[k])
  /\ st[k].file_folder_name = EMPTY
  /\ (st[k].sub_folder_name # EMPTY \/ st[k].file_name # EMPTY)
  /\ CarriedFolder(st, k) # None

C6_FileFolderNames ==
  last = "set_file_folder_names" =>
    /\ Len(store) = Len(before)
    /\ \A k \in 1..Len(before) :
         /\ store[k] = IF FolderUpdated(before, k)
                       THEN [before[k] EXCEPT !.file_folder_name = CarriedFolder(before, k)]
                       ELSE before[k]
         /\ FolderUpdated(before, k) => store[k].file_folder_name # HEADER_FOLDER_NAME
    /\ ret = Cardinality({k \in 1..Len(before) : FolderUpdated(before, k)})

\* Pass C has run on a store where the second of two folder names was carried
\* into a row with file info.
C6_Witness ==
  /\ last = "set_file_folder_names"
  /\ Len(before) = 3
  /\ before[1].file_folder_name = FOLDER1
  /\ before[2].file_folder_name = FOLDER2
  /\ FolderUpdated(before, 3)
  /\ store[3].file_folder_name = FOLDER2

(***************************************************************************)
(* C7: pass D.  A carrier_a or carrier_b that is not blank before the pass *)
(* is the same after it.  A record is filled exactly when it is in the     *)
(* pass's scope (hard_drive_name blank, carrier_a_location not             *)
(* "Digital Lab", not empty, not a header), misses a carrier, has file     *)
(* info, and an earlier record in scope had both carriers before the pass; *)
(* each blank carrier then gets the value of the nearest such record.      *)
(* Nothing else changes and the count returned is the number filled.       *)
(***************************************************************************)
InCarrierScope(r) ==
  /\ r.hard_drive_name = EMPTY
  /\ r.carrier_a_location # DIGITAL_LAB
  /\ ~EmptyRecord(r)
  /\ ~HeaderRecord(r)

CarrierAnchors(st, k) ==
  {j \in 1..(k - 1) : InCarrierScope(st[j])
                      /\ st[j].carrier_a # EMPTY /\ st[j].carrier_b # EMPTY}

CarrierFilled(st, k) ==
  /\ InCarrierScope(st[k])
  /\ (st[k].carrier_a = EMPTY \/ st[k].carrier_b = EMPTY)
  /\ (st[k].file_folder_name # EMPTY \/ st[k].sub_folder_name # EMPTY
      \/ st[k].file_name # EMPTY)
  /\ CarrierAnchors(st, k) # {}

C7_CarrierInfo ==
  last = "set_carrier_info" =>
    /\ Len(store) = Len(before)
    /\ \A k \in 1..Len(before) :
         /\ before[k].carrier_a # EMPTY => store[k].carrier_a = before[k].carrier_a
         /\ before[k].carrier_b # EMPTY => store[k].carrier_b = before[k].carrier_b
         /\ IF CarrierFilled(before, k)
            THEN LET j == Max(CarrierAnchors(before, k))
                 IN  store[k] =
                       [before[k] EXCEPT
                          !.carrier_a = IF @ = EMPTY THEN before[j].carrier_a ELSE @,
                          !.carrier_b = IF @ = EMPTY THEN before[j].carrier_b ELSE @]
            ELSE store[k] = before[k]
    /\ ret = Cardinality({k \in 1..Len(before) : CarrierFilled(before, k)})

\* Pass D has run on a store where a record holding one carrier was filled from
\* the full pair before it, and the record after it was filled from that same
\* pair and not from the record just filled.
C7_Witness ==
  /\ last = "set_carrier_info"
  /\ Len(before) = 3
  /\ before[1].carrier_a = TAPE_A1 /\ before[1].carrier_b = TAPE_B1
  /\ before[2].carrier_a = TAPE_A2 /\ before[2].carrier_b = EMPTY
  /\ before[3].carrier_a = EMPTY /\ before[3].carrier_b = EMPTY
  /\ store[2].carrier_a = TAPE_A2 /\ store[2].carrier_b = TAPE_B1
  /\ store[3].carrier_a = TAPE_A1 /\ store[3].carrier_b = TAPE_B1

(***************************************************************************)
(* C8: pass A deletes exactly the records all of whose string fields are   *)
(* blank after trimming, whatever their status tags; the other records     *)
(* stay, unchanged and in order; the count returned is the number deleted, *)
(* and the store is shorter by that number.                                *)
(***************************************************************************)
NotEmptyRecord(r) == ~EmptyRecord(r)

C8_DeleteEmptyRecords ==
  last = "delete_empty_records" =>
    /\ KeepsExactly(store, before, NotEmptyRecord)
    /\ ret = Len(SelectSeq(before, EmptyRecord))
    /\ Len(store) = Len(before) - ret

\* Pass A has deleted a record holding only whitespace and a status tag, and
\* kept a record with a file name.
C8_Witness ==
  /\ last = "delete_empty_records"
  /\ ret = 1
  /\ Len(before) = 2
  /\ before[1].hard_drive_name = SPACE /\ before[1].status # {} /\ EmptyRecord(before[1])
  /\ before[2].file_name = FILE1
  /\ Len(store) = 1

(***************************************************************************)
(* C9: pass E.  After the pass no record has file_folder_name equal to     *)
(* "File Folder Name"; every other record is still there, unchanged and in *)
(* order; the count returned is the number of header records before the    *)
(* pass, wherever they stood.                                              *)
(***************************************************************************)
NotHeaderRecord(r) == r.file_folder_name # HEADER_FOLDER_NAME

C9_DeleteHeaderRecords ==
  last = "delete_header_records" =>
    /\ \A k \in 1..Len(store) : store[k].file_folder_name # HEADER_FOLDER_NAME
    /\ KeepsExactly(store, before, NotHeaderRecord)
    /\ ret = Len(SelectSeq(before, HeaderRecord))

\* Pass E has deleted two adjacent header records that stood after a data row.
C9_Witness ==
  /\ last = "delete_header_records"
  /\ ret = 2
  /\ Len(before) = 3
  /\ ~HeaderRecord(before[1])
  /\ HeaderRecord(before[2]) /\ HeaderRecord(before[3])
  /\ Len(store) = 1

(***************************************************************************)
(* C10: pass F deletes every record whose hard_drive_name is not blank     *)
(* while all its other string fields are blank, deletes no record that has *)
(* a non-blank value in another string field, and leaves the surviving     *)
(* records unchanged.                                                      *)
(***************************************************************************)
HardDriveOnly(r) ==
  /\ ~Blank(r.hard_drive_name)
  /\ \A f \in OtherFields(r) : Blank(f)

HasOtherData(r) == \E f \in OtherFields(r) : ~Blank(f)

C10_DeleteHardDriveOnly ==
  last = "delete_hard_drive_only_records" =>
    /\ \A k \in 1..Len(before) :
         /\ HardDriveOnly(before[k]) => before[k].id \notin Ids(store)
         /\ HasOtherData(before[k]) => before[k].id \in Ids(store)
    /\ \A k \in 1..Len(store) : \E j \in 1..Len(before) : store[k] = before[j]

(***************************************************************************)
(* Pass G on its own: path fields with and without bracketed text, a       *)
(* bracket pair in the wrong order, brackets outside the path fields, and  *)
(* records that already carry status tags.                                 *)
(***************************************************************************)
BRACKETS == <<"[", "]">>
REVERSED == <<"]", "x", "[">>
DRIVE_NOTE == <<"[", "d", "]">>

RowsG ==
  {WithStatus(Row(EMPTY, EMPTY, EMPTY, EMPTY, ffn, sub, fn, EMPTY), tags) :
     ffn \in {EMPTY, BRACKETS}, sub \in {EMPTY, REVERSED}, fn \in {FILE1, FILE_NOTE},
     tags \in {{}, {"Invalid vault"}}}
  \cup {Row(DRIVE_NOTE, EMPTY, EMPTY, EMPTY, EMPTY, EMPTY, FILE1, DRIVE_NOTE),
        WithStatus(Row(EMPTY, EMPTY, EMPTY, EMPTY, EMPTY, EMPTY, FILE_NOTE, EMPTY),
                   {NEEDS_REVIEW})}

SpecG == InitWith(RowsG, {SEEDED_STATUSES}) /\ [][CallSetStatusForInlineNotes]_vars

\* s contains a "[" with a "]" somewhere after it.
BracketedText(s) ==
  \E i \in 1..Len(s) : s[i] = "[" /\ "]" \in {s[j] : j \in (i + 1)..Len(s)}

HasBracketedPath(r) ==
  \/ BracketedText(r.file_folder_name)
  \/ BracketedText(r.sub_folder_name)
  \/ BracketedText(r.file_name)

(***************************************************************************)
(* C11: after pass G every record is the record it was before the pass,    *)
(* with "Needs review" added to its status set when one of its three path  *)
(* fields contains bracketed text, and with the same status set otherwise; *)
(* no record is added or removed and no field value changes.               *)
(***************************************************************************)
C11_InlineNoteStatus ==
  last = "set_status_for_records_with_inline_notes" =>
    /\ Len(store) = Len(before)
    /\ \A k \in 1..Len(store) :
         store[k] = [before[k] EXCEPT !.status =
                       IF HasBracketedPath(before[k]) THEN @ \cup {NEEDS_REVIEW} ELSE @]

\* A record with bracketed text that carried another tag now carries both, and
\* a record with brackets only outside the path fields has gained nothing.
C11_Witness ==
  /\ last = "set_status_for_records_with_inline_notes"
  /\ \E k \in 1..Len(store) :
       /\ before[k].status = {"Invalid vault"}
       /\ store[k].status = {"Invalid vault", NEEDS_REVIEW}
  /\ \E k \in 1..Len(store) :
       /\ store[k].hard_drive_name = DRIVE_NOTE
       /\ store[k].status = {}

(***************************************************************************)
(* C12: when "Needs review" is missing from the status catalog, the step   *)
(* of handle that runs pass G ends the run in an error: no count is        *)
(* reported for G and the store, status sets included, is left as it was.  *)
(***************************************************************************)
C12_MissingStatusIsFatal ==
  [][(pc = "set_status_for_records_with_inline_notes" /\ NEEDS_REVIEW \notin catalog)
       => (/\ pc' = "error"
           /\ store' = store
           /\ trace' = trace
           /\ ret' = ret)]_vars

\* A run has ended in the error on a store holding a record with an inline note.
C12_Witness ==
  /\ pc = "error"
  /\ last = "set_status_for_records_with_inline_notes"
  /\ NEEDS_REVIEW \notin catalog
  /\ \E k \in 1..Len(store) : HasBracketedPath(store[k]) /\ store[k].status = {}

(***************************************************************************)
(* clean_tape_info.py: get_tape_info_parts.  The regular expressions are   *)
(* computed on the characters: \d and [A-Z] are character classes, \s* is  *)
(* any run of whitespace, and both compiled patterns are anchored at both  *)
(* ends of the stripped input.                                             *)
(***************************************************************************)
Upper ==
  {"A", "B", "C", "D", "E", "F", "G", "H", "I", "J", "K", "L", "M",
   "N", "O", "P", "Q", "R", "S", "T", "U", "V", "W", "X", "Y", "Z"}

\* Every character of s from position lo to position hi is in class.
AllIn(s, lo, hi, class) == \A i \in lo..hi : s[i] \in class

\* tape_id_formats: one of the four alternatives matches the whole of t.
tape_id_format(t) ==
  \/ Len(t) = 6 /\ AllIn(t, 1, 6, Digits)
  \/ Len(t) = 6 /\ AllIn(t, 1, 3, Upper) /\ AllIn(t, 4, 6, Digits)
  \/ Len(t) = 6 /\ AllIn(t, 1, 4, Upper) /\ AllIn(t, 5, 6, Digits)
  \/ Len(t) = 7 /\ AllIn(t, 1, 1, Upper) /\ AllIn(t, 2, 7, Digits)

vault_designator_format(t) ==
  t \in {<<"(", "i", "n", " ", "v", "a", "u", "l", "t", ")">>,
         <<"(", "t", "o", " ", "v", "a", "u", "l", "t", ")">>}

vault_location_format(t) ==
  /\ Len(t) = 12
  /\ SubSeq(t, 1, 7) = <<"S", "2", "1", "7", "-", "0", "1">>
  /\ t[8] \in Upper
  /\ t[9] \in {" ", "-"}
  /\ AllIn(t, 10, 11, Digits)
  /\ t[12] \in Upper

\* tape_id_pattern.search: the matched text, as a set (empty when no match).
tape_id_pattern(s) == IF tape_id_format(s) THEN {s} ELSE {}

\* combined_pattern.search: the pairs (group 1, group 3) of the ways the
\* pattern matches all of s.
combined_pattern(s) ==
  {<<SubSeq(s, 1, i), SubSeq(s, Len(s) - 11, Len(s))>> :
     i \in {i \in {6, 7} :
              /\ Len(s) >= i + 10 + 12
              /\ tape_id_format(SubSeq(s, 1, i))
              /\ vault_location_format(SubSeq(s, Len(s) - 11, Len(s)))
              /\ \E j \in i..(Len(s) - 22) :
                   /\ AllIn(s, i + 1, j, Whitespace)
                   /\ vault_designator_format(SubSeq(s, j + 1, j + 10))
                   /\ AllIn(s, j + 11, Len(s) - 12, Whitespace)}}

\* Mutant: the input is matched as given, without strip().
get_tape_info_parts_unstripped(tape_info) ==
  IF tape_id_pattern(tape_info) # {}
  THEN <<CHOOSE m \in tape_id_pattern(tape_info) : TRUE, None>>
  ELSE IF combined_pattern(tape_info) # {}
       THEN CHOOSE m \in combined_pattern(tape_info) : TRUE
       ELSE <<None, None>>

\* A string with every space replaced by a hyphen: str.replace(" ", "-").
ReplaceSpaces(s) == [i \in 1..Len(s) |-> IF s[i] = " " THEN "-" ELSE s[i]]

\* Mutant: the parser itself writes the vault location with hyphens.
get_tape_info_parts_normalized(tape_info) ==
  LET s == Strip(tape_info) IN
  IF tape_id_pattern(s) # {}
  THEN <<CHOOSE m \in tape_id_pattern(s) : TRUE, None>>
  ELSE IF combined_pattern(s) # {}
       THEN LET m == CHOOSE m \in combined_pattern(s) : TRUE
            IN  <<m[1], ReplaceSpaces(m[2])>>
       ELSE <<None, None>>

\* Mutant: the tape id alone is matched at the start of the input, not against
\* all of it.
get_tape_info_parts_prefix(tape_info) ==
  LET s == Strip(tape_info)
      ids == {i \in {6, 7} : Len(s) >= i /\ tape_id_format(SubSeq(s, 1, i))}
  IN  IF ids # {}
      THEN <<SubSeq(s, 1, CHOOSE i \in ids : TRUE), None>>
      ELSE IF combined_pattern(s) # {}
           THEN CHOOSE m \in combined_pattern(s) : TRUE
           ELSE <<None, None>>

get_tape_info_parts(tape_info) ==
  LET s == Strip(tape_info) IN
  IF tape_id_pattern(s) # {}
  THEN <<CHOOSE m \in tape_id_pattern(s) : TRUE, None>>
  ELSE IF combined_pattern(s) # {}
       THEN CHOOSE m \in combined_pattern(s) : TRUE
       ELSE <<None, None>>

(***************************************************************************)
(* The parser called on one input.  The inputs are built from a leading    *)
(* part, an id, a gap, a vault marker, a gap, a location and a trailing    *)
(* part, each drawn from well-formed and malformed values.                 *)
(***************************************************************************)
TAB == <<"\t">>

TapeIdTexts ==
  {<<"8", "2", "0", "0", "0", "1">>, <<"A", "A", "B", "9", "6", "3">>, <<"C", "L", "N", "U", "0", "0">>, <<"M", "2", "5", "8", "1", "4", "5">>,
   <<"a", "a", "b", "9", "6", "3">>, <<"1", "2", "3", "4", "5">>, <<"A", "B", "1", "2", "3", "4">>}

TapeMarkerTexts ==
  {EMPTY, <<"(", "i", "n", " ", "v", "a", "u", "l", "t", ")">>, <<"(", "t", "o", " ", "v", "a", "u", "l", "t", ")">>, <<"(", "v", "a", "u", "l", "t", ")">>}

TapeLocationTexts ==
  {EMPTY, <<"S", "2", "1", "7", "-", "0", "1", "A", " ", "1", "1", "A">>, <<"S", "2", "1", "7", "-", "0", "1", "A", "-", "1", "3", "D">>, <<"S", "2", "1", "7", "-", "0", "1", "a", "-", "1", "3", "D">>,
   <<"S", "2", "1", "7", "-", "0", "1", "A", "_", "1", "3", "D">>, <<"S", "2", "1", "7", "-", "0", "1", "A", "-", "1", "3">>}

TapeInputs ==
  {lead \o id \o gap1 \o marker \o gap2 \o location \o trail :
     lead \in {EMPTY, SPACE, <<"x", " ">>},
     id \in TapeIdTexts,
     gap1 \in {EMPTY, SPACE, TAB, <<" ", "&", " ", "A", "A", "B", "9", "6", "7", " ">>},
     marker \in TapeMarkerTexts,
     gap2 \in {EMPTY, SPACE, <<" ", " ">>},
     location \in TapeLocationTexts,
     trail \in {EMPTY, SPACE, <<" ", "x">>}}

InitCall(inputs) ==
  /\ store = <<>>
  /\ before = <<>>
  /\ start = <<>>
  /\ last = "none"
  /\ ret = 0
  /\ pc = "idle"
  /\ run = 0
  /\ trace = <<>>
  /\ dry_run = FALSE
  /\ catalog = SEEDED_STATUSES
  /\ arg \in inputs
  /\ out = <<>>

\* A function is called on arg and its value is kept in out.
Apply(f, value) ==
  /\ last = "none"
  /\ last' = f
  /\ out' = value
  /\ UNCHANGED <<store, before, start, ret, pc, run, trace, dry_run, catalog, arg>>

CallGetTapeInfoParts == Apply("get_tape_info_parts", get_tape_info_parts(arg))

SpecTape == InitCall(TapeInputs) /\ [][CallGetTapeInfoParts]_vars

(***************************************************************************)
(* Shapes of the inputs, stated on the characters and not through the      *)
(* patterns: Shape replaces every digit by "9" and every uppercase letter  *)
(* by "A".                                                                 *)
(***************************************************************************)
Shape(t) ==
  [i \in 1..Len(t) |-> IF t[i] \in Digits THEN "9"
                       ELSE IF t[i] \in Upper THEN "A" ELSE t[i]]

IsTapeId(t) ==
  /\ Len(t) \in {6, 7}
  /\ Shape(t) \in {<<"9", "9", "9", "9", "9", "9">>, <<"A", "A", "A", "9", "9", "9">>, <<"A", "A", "A", "A", "9", "9">>, <<"A", "9", "9", "9", "9", "9", "9">>}

IsVaultLocation(t) ==
  /\ Len(t) = 12
  /\ SubSeq(t, 1, 7) = <<"S", "2", "1", "7", "-", "0", "1">>
  /\ Shape(SubSeq(t, 8, 12)) \in {<<"A", " ", "9", "9", "A">>, <<"A", "-", "9", "9", "A">>}

IsVaultMarker(t) == t = <<"(", "i", "n", " ", "v", "a", "u", "l", "t", ")">> \/ t = <<"(", "t", "o", " ", "v", "a", "u", "l", "t", ")">>

\* The text with its leading and trailing blanks and tabs removed.
Trimmed(t) ==
  LET keep == {i \in 1..Len(t) : t[i] \notin {" ", "\t"}}
  IN  IF keep = {} THEN <<>>
      ELSE SubSeq(t, CHOOSE i \in keep : \A j \in keep : i <= j,
                     CHOOSE i \in keep : \A j \in keep : j <= i)

\* t is id, separators, marker, separators, location, with the id ending at
\* position i and the location starting at position k; the separators are
\* drawn from the characters of sep.
SplitsAs(t, i, k, sep) ==
  /\ IsTapeId(SubSeq(t, 1, i))
  /\ IsVaultLocation(SubSeq(t, k, Len(t)))
  /\ \E j \in (i + 1)..(k - 1) :
       /\ AllIn(t, i + 1, j - 1, sep)
       /\ j + 9 < k
       /\ IsVaultMarker(SubSeq(t, j, j + 9))
       /\ AllIn(t, j + 10, k - 1, sep)

(***************************************************************************)
(* C13: when the trimmed input is exactly one tape id, get_tape_info_parts *)
(* returns that tape id and None.                                          *)
(***************************************************************************)
C13_BareTapeId ==
  (last = "get_tape_info_parts" /\ IsTapeId(Trimmed(arg))) =>
    out = <<Trimmed(arg), None>>

\* The parser has returned the id of an input given with surrounding spaces.
C13_Witness ==
  /\ last = "get_tape_info_parts"
  /\ arg = <<" ", "M", "2", "5", "8", "1", "4", "5", " ">>
  /\ out = <<<<"M", "2", "5", "8", "1", "4", "5">>, None>>

carrier_location_field_name(carrier_field_name) ==
  IF carrier_field_name = "carrier_a" THEN "carrier_a_location" ELSE "carrier_b_location"

\* SheetImport.objects.exclude(**{carrier_field_name: ""}).order_by("id")
carrier_field_query(st, carrier_field_name) ==
  SelectSeq(st, LAMBDA r : r[carrier_field_name] # EMPTY)

RECURSIVE scan_carrier_fields(_, _, _, _, _, _)
scan_carrier_fields(records, i, carrier_field_name, update_records, report_problems, acc) ==
  IF i > Len(records) THEN acc
  ELSE
    LET record == records[i]
        parts == get_tape_info_parts(record[carrier_field_name])
        tape_id == parts[1]
        vault_location == parts[2]
        updated ==
          IF Truthy(vault_location)
          THEN [record EXCEPT
                  ![carrier_field_name] = tape_id,
                  ![carrier_location_field_name(carrier_field_name)] =
                     ReplaceSpaces(vault_location)]
          ELSE [record EXCEPT ![carrier_field_name] = tape_id]
    IN  IF Truthy(tape_id)
        THEN IF update_records
             THEN scan_carrier_fields(records, i + 1, carrier_field_name,
                                      update_records, report_problems,
                                      [acc EXCEPT !.store = Save(acc.store, updated),
                                                  !.count = @ + 1])
             ELSE scan_carrier_fields(records, i + 1, carrier_field_name,
                                      update_records, report_problems, acc)
        ELSE IF report_problems
             THEN scan_carrier_fields(records, i + 1, carrier_field_name,
                                      update_records, report_problems,
                                      [acc EXCEPT !.reported = Append(@, record.id)])
             ELSE scan_carrier_fields(records, i + 1, carrier_field_name,
                                      update_records, report_problems, acc)

\* Mutant: the vault location is stored as the parser returned it.
RECURSIVE scan_carrier_fields_verbatim(_, _, _, _, _, _)
scan_carrier_fields_verbatim(records, i, carrier_field_name, update_records,
                             report_problems, acc) ==
  IF i > Len(records) THEN acc
  ELSE
    LET record == records[i]
        parts == get_tape_info_parts(record[carrier_field_name])
        tape_id == parts[1]
        vault_location == parts[2]
        updated ==
          IF Truthy(vault_location)
          THEN [record EXCEPT
                  ![carrier_field_name] = tape_id,
                  ![carrier_location_field_name(carrier_field_name)] = vault_location]
          ELSE [record EXCEPT ![carrier_field_name] = tape_id]
    IN  IF Truthy(tape_id)
        THEN IF update_records
             THEN scan_carrier_fields_verbatim(records, i + 1, carrier_field_name,
                                               update_records, report_problems,
                                               [acc EXCEPT !.store = Save(acc.store, updated),
                                                           !.count = @ + 1])
             ELSE scan_carrier_fields_verbatim(records, i + 1, carrier_field_name,
                                               update_records, report_problems, acc)
        ELSE IF report_problems
             THEN scan_carrier_fields_verbatim(records, i + 1, carrier_field_name,
                                               update_records, report_problems,
                                               [acc EXCEPT !.reported = Append(@, record.id)])
             ELSE scan_carrier_fields_verbatim(records, i + 1, carrier_field_name,
                                               update_records, report_problems, acc)

process_carrier_fields_verbatim(st, carrier_field_name, update_records, report_problems) ==
  scan_carrier_fields_verbatim(carrier_field_query(st, carrier_field_name), 1,
                               carrier_field_name, update_records, report_problems,
                               [store |-> st, count |-> 0, error |-> FALSE, reported |-> <<>>])

\* Mutant: the location field is written even when no vault location was parsed.
RECURSIVE scan_carrier_fields_unguarded(_, _, _, _, _, _)
scan_carrier_fields_unguarded(records, i, carrier_field_name, update_records,
                              report_problems, acc) ==
  IF i > Len(records) THEN acc
  ELSE
    LET record == records[i]
        parts == get_tape_info_parts(record[carrier_field_name])
        tape_id == parts[1]
        vault_location == parts[2]
        updated ==
          [record EXCEPT
             ![carrier_field_name] = tape_id,
             ![carrier_location_field_name(carrier_field_name)] =
                ReplaceSpaces(vault_location)]
    IN  IF Truthy(tape_id)
        THEN IF update_records
             THEN scan_carrier_fields_unguarded(records, i + 1, carrier_field_name,
                                                update_records, report_problems,
                                                [acc EXCEPT !.store = Save(acc.store, updated),
                                                            !.count = @ + 1])
             ELSE scan_carrier_fields_unguarded(records, i + 1, carrier_field_name,
                                                update_records, report_problems, acc)
        ELSE IF report_problems
             THEN scan_carrier_fields_unguarded(records, i + 1, carrier_field_name,
                                                update_records, report_problems,
                                                [acc EXCEPT !.reported = Append(@, record.id)])
             ELSE scan_carrier_fields_unguarded(records, i + 1, carrier_field_name,
                                                update_records, report_problems, acc)

process_carrier_fields_unguarded(st, carrier_field_name, update_records, report_problems) ==
  scan_carrier_fields_unguarded(carrier_field_query(st, carrier_field_name), 1,
                                carrier_field_name, update_records, report_problems,
                                [store |-> st, count |-> 0, error |-> FALSE, reported |-> <<>>])

\* Mutant: the records are written back whatever update_records is.
process_carrier_fields_always_update(st, carrier_field_name, update_records, report_problems) ==
  scan_carrier_fields(carrier_field_query(st, carrier_field_name), 1,
                      carrier_field_name, TRUE, report_problems,
                      [store |-> st, count |-> 0, error |-> FALSE, reported |-> <<>>])

process_carrier_fields(st, carrier_field_name, update_records, report_problems) ==
  scan_carrier_fields(carrier_field_query(st, carrier_field_name), 1,
                      carrier_field_name, update_records, report_problems,
                      [store |-> st, count |-> 0, error |-> FALSE, reported |-> <<>>])

(***************************************************************************)
(* process_carrier_fields called on a store, and called again, for either  *)
(* carrier field and either mode; arg keeps the arguments of the call and  *)
(* out the ids written to stdout.                                          *)
(***************************************************************************)
PADDED_ID == <<" ", "M", "2", "5", "8", "1", "4", "5", " ">>
ID_AND_VAULT == <<"C", "L", "N", "U", "0", "0", " ", "(", "i", "n", " ", "v", "a", "u", "l", "t", ")", " ", "S", "2", "1", "7", "-", "0", "1", "A", " ", "1", "1", "A">>
ID_TO_VAULT == <<"M", "2", "6", "5", "1", "5", "4", "(", "t", "o", " ", "v", "a", "u", "l", "t", ")", "S", "2", "1", "7", "-", "0", "1", "A", "-", "1", "3", "D">>
TWO_IDS == <<"0", "0", "0", "0", "2", "8", " ", "&", " ", "A", "A", "B", "9", "6", "7">>
OLD_LOCATION == <<"S", "2", "1", "7", "-", "0", "1", "B", "-", "2", "2", "C">>

WithLocations(row, cal, cbl) ==
  [row EXCEPT !.carrier_a_location = cal, !.carrier_b_location = cbl]

RowsCarrier ==
  {Row(EMPTY, PADDED_ID, EMPTY, EMPTY, EMPTY, EMPTY, FILE1, EMPTY),
   Row(EMPTY, TWO_IDS, EMPTY, ID_TO_VAULT, EMPTY, EMPTY, FILE1, EMPTY),
   Row(EMPTY, ID_AND_VAULT, EMPTY, ID_TO_VAULT, EMPTY, EMPTY, FILE1, EMPTY),
   Row(EMPTY, EMPTY, EMPTY, EMPTY, EMPTY, EMPTY, FILE1, EMPTY),
   WithLocations(Row(EMPTY, ID_AND_VAULT, EMPTY, TWO_IDS, EMPTY, EMPTY, FILE1, EMPTY),
                 OLD_LOCATION, OLD_LOCATION),
   WithLocations(Row(EMPTY, PADDED_ID, EMPTY, SPACE, EMPTY, EMPTY, FILE1, EMPTY),
                 OLD_LOCATION, EMPTY)}

CallProcessCarrierFields ==
  /\ run < MaxRuns
  /\ \E carrier_field_name \in {"carrier_a", "carrier_b"} :
       \E update_records \in BOOLEAN :
         LET report_problems == ~update_records
             result == process_carrier_fields(store, carrier_field_name,
                                              update_records, report_problems)
         IN  /\ arg' = <<carrier_field_name, update_records, report_problems>>
             /\ store' = result.store
             /\ ret' = result.count
             /\ out' = result.reported
  /\ before' = store
  /\ last' = "process_carrier_fields"
  /\ run' = run + 1
  /\ UNCHANGED <<start, pc, trace, dry_run, catalog>>

SpecCarrier == InitWith(RowsCarrier, {SEEDED_STATUSES}) /\ [][CallProcessCarrierFields]_vars

\* The vault location with its separator written as a hyphen.
Hyphenated(location) == [i \in 1..Len(location) |-> IF i = 9 THEN "-" ELSE location[i]]

\* The ways the text splits as id, spacing, marker, spacing, location.
Splits(t) ==
  {<<i, k>> \in ({i \in 1..Len(t) : IsTapeId(SubSeq(t, 1, i))}
                 \X {k \in 1..Len(t) : IsVaultLocation(SubSeq(t, k, Len(t)))}) :
     SplitsAs(t, i, k, {" ", "\t"})}

Parses(text) == IsTapeId(Trimmed(text)) \/ Splits(Trimmed(text)) # {}

\* What a record becomes when its carrier field is written back.
WrittenBack(r, field) ==
  LET t == Trimmed(r[field])
      location_field == IF field = "carrier_a" THEN "carrier_a_location"
                        ELSE "carrier_b_location"
  IN  IF IsTapeId(t) THEN [r EXCEPT ![field] = t]
      ELSE IF Splits(t) # {}
           THEN LET s == CHOOSE s \in Splits(t) : TRUE
                IN  [r EXCEPT ![field] = SubSeq(t, 1, s[1]),
                              ![location_field] = Hyphenated(SubSeq(t, s[2], Len(t)))]
           ELSE r

(***************************************************************************)
(* C16: after process_carrier_fields(field, update_records = True) every   *)
(* record whose carrier text parses holds the tape id alone in the carrier *)
(* field and, when a vault location was parsed, that location with a       *)
(* hyphen for its separator in the matching location field; every other    *)
(* record is as it was; the returned count is the number of records whose  *)
(* text parsed.                                                            *)
(***************************************************************************)
C16_CarrierWriteBack ==
  (last = "process_carrier_fields" /\ arg[2]) =>
    /\ Len(store) = Len(before)
    /\ \A k \in 1..Len(store) : store[k] = WrittenBack(before[k], arg[1])
    /\ ret = Cardinality({k \in 1..Len(before) : Parses(before[k][arg[1]])})

\* One call has rewritten a record with id and vault location, replacing an
\* older location, and has passed over a record whose text does not parse.
C16_Witness ==
  /\ last = "process_carrier_fields"
  /\ arg = <<"carrier_a", TRUE, FALSE>>
  /\ \E k \in 1..Len(store) :
       /\ before[k].carrier_a = ID_AND_VAULT
       /\ before[k].carrier_a_location = OLD_LOCATION
       /\ store[k].carrier_a = <<"C", "L", "N", "U", "0", "0">>
       /\ store[k].carrier_a_location = <<"S", "2", "1", "7", "-", "0", "1", "A", "-", "1", "1", "A">>
  /\ \E k \in 1..Len(store) : store[k].carrier_a = TWO_IDS
  /\ ret = 1

(***************************************************************************)
(* extract_inventory_numbers.py.  re.findall with the compiled pattern is  *)
(* computed on the characters: a match starts where the previous character *)
(* is not a capital letter, with one of the prefixes, then takes every     *)
(* digit that follows (two at least), then one capital letter when the     *)
(* character after it is not a letter.  The search goes on after a match.  *)
(***************************************************************************)
Lowercase ==
  {"a", "b", "c", "d", "e", "f", "g", "h", "i", "j", "k", "l", "m",
   "n", "o", "p", "q", "r", "s", "t", "u", "v", "w", "x", "y", "z"}

inventory_number_prefixes ==
  <<<<"M">>, <<"T">>, <<"D", "V", "D">>, <<"F", "E">>, <<"H", "F", "A">>, <<"V", "A">>, <<"X", "F", "E">>, <<"X", "F", "F">>, <<"X", "V", "E">>>>

\* s holds p at position q.
HasAt(s, q, p) == Len(s) >= q + Len(p) - 1 /\ SubSeq(s, q, q + Len(p) - 1) = p

\* The number of characters of class that s holds from position q on.
RunLength(s, q, class) ==
  LET stops == {i \in q..Len(s) : s[i] \notin class}
  IN  IF stops = {} THEN Len(s) - q + 1
      ELSE (CHOOSE i \in stops : \A j \in stops : i <= j) - q

\* The length of the match of the pattern at position q of s, 0 when there is none.
inventory_number_match(s, q) ==
  LET alternatives == {a \in 1..Len(inventory_number_prefixes) :
                         HasAt(s, q, inventory_number_prefixes[a])}
  IN  IF (q > 1 /\ s[q - 1] \in Upper) \/ alternatives = {} THEN 0
      ELSE LET first == CHOOSE a \in alternatives : \A b \in alternatives : a <= b
               d == q + Len(inventory_number_prefixes[first])
               n == RunLength(s, d, Digits)
               e == d + n
               suffix == IF /\ e <= Len(s)
                            /\ s[e] \in Upper
                            /\ (e + 1 > Len(s) \/ s[e + 1] \notin (Upper \cup Lowercase))
                         THEN 1 ELSE 0
           IN  IF n < 2 THEN 0 ELSE (e - q) + suffix

RECURSIVE findall(_, _)
findall(s, q) ==
  IF q > Len(s) THEN <<>>
  ELSE LET n == inventory_number_match(s, q)
       IN  IF n > 0 THEN <<SubSeq(s, q, q + n - 1)>> \o findall(s, q + n)
           ELSE findall(s, q + 1)

compile_regex(path_string) == findall(path_string, 1)

\* list(dict.fromkeys(matches)): the first occurrence of each value, in order.
RECURSIVE FromKeys(_, _, _)
FromKeys(matches, i, acc) ==
  IF i > Len(matches) THEN acc
  ELSE IF \E j \in 1..Len(acc) : acc[j] = matches[i]
       THEN FromKeys(matches, i + 1, acc)
       ELSE FromKeys(matches, i + 1, Append(acc, matches[i]))

\* list.remove(x): the list without its first x.
ListRemove(list, x) ==
  LET at == {i \in 1..Len(list) : list[i] = x}
  IN  IF at = {} THEN list
      ELSE LET first == CHOOSE i \in at : \A j \in at : i <= j
           IN  SubSeq(list, 1, first - 1) \o SubSeq(list, first + 1, Len(list))

known_false_positives == <<<<"T", "0", "1">>, <<"F", "E", "3", "0", "1", "8", "T">>>>

remove_false_positives(unique_inventory_numbers) ==
  ListRemove(ListRemove(unique_inventory_numbers, known_false_positives[1]),
             known_false_positives[2])

\* "|".join(list)
RECURSIVE PipeJoin(_)
PipeJoin(list) ==
  IF list = <<>> THEN EMPTY
  ELSE IF Len(list) = 1 THEN list[1]
  ELSE list[1] \o <<"|">> \o PipeJoin(Tail(list))

\* Mutant: the matches go to the deny-list step without being made unique.
build_inventory_number_string_not_unique(matches) ==
  PipeJoin(remove_false_positives(matches))

build_inventory_number_string(matches) ==
  PipeJoin(remove_false_positives(FromKeys(matches, 1, <<>>)))

(***************************************************************************)
(* build_inventory_number_string called on the matches of a path string.   *)
(* The paths are three segments joined by "/", as extract_inventory_numbers*)
(* joins the three path fields.                                            *)
(***************************************************************************)
TITLE_T01 == <<"T", "i", "t", "l", "e", "_", "T", "0", "1", "A", "S", "Y", "N", "C", "_", "S", "u", "r", "r", "o", "u", "n", "d">>

PathSegments ==
  {EMPTY, <<"M", "1", "2", "3">>, <<"T", "0", "1">>, <<"T", "0", "1", "_", "M", "1", "2", "3">>, <<"F", "E", "3", "0", "1", "8", "T">>, <<"F", "E", "3", "0", "1", "8", "T", "_", "T", "0", "1">>,
   <<"D", "V", "D", "4", "5", "A">>, <<"X", "M", "1", "2">>, <<"m", "1", "2", "_", "M", "1">>, <<"M", "1", "2", "3", "A", "b">>, TITLE_T01}

PathString(ffn, sub, fn) == ffn \o <<"/">> \o sub \o <<"/">> \o fn

PathInputs == {PathString(a, b, c) : a \in PathSegments, b \in PathSegments, c \in PathSegments}

CallBuildInventoryNumberString ==
  Apply("build_inventory_number_string",
        [matches |-> compile_regex(arg),
         value |-> build_inventory_number_string(compile_regex(arg))])

SpecInventoryString == InitCall(PathInputs) /\ [][CallBuildInventoryNumberString]_vars

\* The tokens of a "|"-delimited string, in order.
RECURSIVE PipeSplit(_)
PipeSplit(s) ==
  IF s = <<>> THEN <<>>
  ELSE LET bars == {i \in 1..Len(s) : s[i] = "|"}
       IN  IF bars = {} THEN <<s>>
           ELSE LET b == CHOOSE i \in bars : \A j \in bars : i <= j
                IN  <<SubSeq(s, 1, b - 1)>> \o PipeSplit(SubSeq(s, b + 1, Len(s)))

DenyListed(token) == token = <<"T", "0", "1">> \/ token = <<"F", "E", "3", "0", "1", "8", "T">>

\* The position of the first occurrence of token in list.
FirstAt(list, token) ==
  CHOOSE i \in 1..Len(list) : list[i] = token /\ \A j \in 1..(i - 1) : list[j] # token

(***************************************************************************)
(* C17: the string built from the matches of a path holds, separated by    *)
(* "|", exactly the matched tokens that are not deny-listed, each once, in *)
(* the order of their first occurrence among the matches.                  *)
(***************************************************************************)
C17_InventoryNumberString ==
  last = "build_inventory_number_string" =>
    LET tokens == PipeSplit(out.value)
        matches == out.matches
    IN  /\ \A i \in 1..Len(tokens) : \A j \in 1..Len(tokens) :
             tokens[i] = tokens[j] => i = j
        /\ \A i \in 1..Len(tokens) : ~DenyListed(tokens[i])
        /\ {tokens[i] : i \in 1..Len(tokens)}
             = {matches[i] : i \in 1..Len(matches)} \ {<<"T", "0", "1">>, <<"F", "E", "3", "0", "1", "8", "T">>}
        /\ \A i \in 1..Len(tokens) : \A j \in 1..Len(tokens) :
             i < j => FirstAt(matches, tokens[i]) < FirstAt(matches, tokens[j])

\* A path with the title "Title_T01ASYNC_Surround", a repeated number and a
\* second number yields the two numbers once each and no "T01".
C17_Witness ==
  /\ last = "build_inventory_number_string"
  /\ arg = PathString(TITLE_T01, <<"D", "V", "D", "4", "5", "A">>, <<"T", "0", "1", "_", "M", "1", "2", "3">>) 
  /\ out.matches = <<<<"T", "0", "1">>, <<"D", "V", "D", "4", "5", "A">>, <<"T", "0", "1">>, <<"M", "1", "2", "3">>>>
  /\ out.value = <<"D", "V", "D", "4", "5", "A", "|", "M", "1", "2", "3">>

(***************************************************************************)
(* extract_inventory_numbers.py: the query, the extraction and the         *)
(* command.  extract_inventory_numbers changes the records it was given    *)
(* in memory and returns the changed ones; handle writes them to the store *)
(* with bulk_update unless the run is a dry run.                           *)
(***************************************************************************)
UpperLetters ==
  <<"A", "B", "C", "D", "E", "F", "G", "H", "I", "J", "K", "L", "M",
    "N", "O", "P", "Q", "R", "S", "T", "U", "V", "W", "X", "Y", "Z">>

LowerLetters ==
  <<"a", "b", "c", "d", "e", "f", "g", "h", "i", "j", "k", "l", "m",
    "n", "o", "p", "q", "r", "s", "t", "u", "v", "w", "x", "y", "z">>

\* str.lower()
ToLower(s) ==
  [i \in 1..Len(s) |->
     IF s[i] \in Upper
     THEN LowerLetters[CHOOSE k \in 1..26 : UpperLetters[k] = s[i]]
     ELSE s[i]]

\* sub is contained in s.
Contains(s, sub) == \E q \in 1..(Len(s) - Len(sub) + 1) : HasAt(s, q, sub)

\* field__icontains = sub
IContains(s, sub) == Contains(ToLower(s), ToLower(sub))

\* Mutant: the query returns every record.
get_records_without_inventory_numbers_all(st) == SelectSeq(st, LAMBDA r : TRUE)

get_records_without_inventory_numbers(st) ==
  SelectSeq(st, LAMBDA r : \/ r.inventory_number = EMPTY
                           \/ IContains(r.inventory_number, <<"i", "n", "v", "a", "l", "i", "d">>))

\* Mutant: a record whose built string is empty is updated with it.
RECURSIVE scan_inventory_numbers_empty_kept(_, _, _)
scan_inventory_numbers_empty_kept(records, i, updated_records) ==
  IF i > Len(records) THEN updated_records
  ELSE
    LET record == records[i]
        path_string == PathString(record.file_folder_name, record.sub_folder_name,
                                  record.file_name)
        matches == compile_regex(path_string)
        inventory_number_string == build_inventory_number_string(matches)
    IN  IF matches = <<>>
        THEN scan_inventory_numbers_empty_kept(records, i + 1, updated_records)
        ELSE scan_inventory_numbers_empty_kept(
               records, i + 1,
               Append(updated_records,
                      [record EXCEPT !.inventory_number = inventory_number_string]))

extract_inventory_numbers_empty_kept(records) ==
  scan_inventory_numbers_empty_kept(records, 1, <<>>)

RECURSIVE scan_inventory_numbers(_, _, _)
scan_inventory_numbers(records, i, updated_records) ==
  IF i > Len(records) THEN updated_records
  ELSE
    LET record == records[i]
        path_string == PathString(record.file_folder_name, record.sub_folder_name,
                                  record.file_name)
        matches == compile_regex(path_string)
        inventory_number_string == build_inventory_number_string(matches)
    IN  IF matches = <<>> \/ inventory_number_string = EMPTY
        THEN scan_inventory_numbers(records, i + 1, updated_records)
        ELSE scan_inventory_numbers(
               records, i + 1,
               Append(updated_records,
                      [record EXCEPT !.inventory_number = inventory_number_string]))

extract_inventory_numbers(records) == scan_inventory_numbers(records, 1, <<>>)

\* SheetImport.objects.bulk_update(updated_records, ["inventory_number"])
RECURSIVE bulk_update_inventory_number(_, _, _)
bulk_update_inventory_number(st, updated_records, i) ==
  IF i > Len(updated_records) THEN st
  ELSE bulk_update_inventory_number(
         [k \in 1..Len(st) |->
            IF st[k].id = updated_records[i].id
            THEN [st[k] EXCEPT !.inventory_number = updated_records[i].inventory_number]
            ELSE st[k]],
         updated_records, i + 1)

INVALID_NUMBER == <<"I", "n", "v", "a", "l", "i", "d">>
OLD_NUMBER == <<"M", "9", "9", "9">>

WithInventoryNumber(row, number) == [row EXCEPT !.inventory_number = number]

RowsInventory ==
  {Row(EMPTY, EMPTY, EMPTY, EMPTY, EMPTY, EMPTY, FILE1, EMPTY),
   Row(EMPTY, EMPTY, EMPTY, EMPTY, EMPTY, EMPTY, <<"T", "0", "1">>, EMPTY),
   Row(EMPTY, EMPTY, EMPTY, EMPTY, <<"M", "1", "2", "3">>, EMPTY, <<"D", "V", "D", "4", "5", "A", "_", "M", "1", "2", "3">>, EMPTY),
   WithInventoryNumber(Row(EMPTY, EMPTY, EMPTY, EMPTY, EMPTY, EMPTY, FILE1, EMPTY),
                       INVALID_NUMBER),
   WithInventoryNumber(Row(EMPTY, EMPTY, EMPTY, EMPTY, EMPTY, EMPTY, TITLE_T01, EMPTY),
                       INVALID_NUMBER),
   WithInventoryNumber(Row(EMPTY, EMPTY, EMPTY, EMPTY, EMPTY, EMPTY, <<"M", "1", "2", "3">>, EMPTY),
                       INVALID_NUMBER),
   WithInventoryNumber(Row(EMPTY, EMPTY, EMPTY, EMPTY, EMPTY, EMPTY, <<"M", "1", "2", "3">>, EMPTY),
                       OLD_NUMBER)}

\* Mutant: the updated records are saved in dry run mode too.
HandleExtractInventoryNumbers_persist ==
  /\ run < MaxRuns
  /\ \E d \in BOOLEAN :
       LET records_without_inv_nos == get_records_without_inventory_numbers(store)
           updated_records == extract_inventory_numbers(records_without_inv_nos)
       IN  /\ dry_run' = d
           /\ out' = updated_records
           /\ ret' = Len(updated_records)
           /\ store' = bulk_update_inventory_number(store, updated_records, 1)
  /\ before' = store
  /\ last' = "extract_inventory_numbers"
  /\ run' = run + 1
  /\ UNCHANGED <<start, pc, trace, catalog, arg>>

\* manage.py extract_inventory_numbers [--dry_run]: out is the list of updated
\* records written to the summary, ret the number printed for it.
HandleExtractInventoryNumbers ==
  /\ run < MaxRuns
  /\ \E d \in BOOLEAN :
       LET records_without_inv_nos == get_records_without_inventory_numbers(store)
           updated_records == extract_inventory_numbers(records_without_inv_nos)
       IN  /\ dry_run' = d
           /\ out' = updated_records
           /\ ret' = Len(updated_records)
           /\ store' = IF d THEN store
                       ELSE bulk_update_inventory_number(store, updated_records, 1)
  /\ before' = store
  /\ last' = "extract_inventory_numbers"
  /\ run' = run + 1
  /\ UNCHANGED <<start, pc, trace, catalog, arg>>

SpecInventory == InitWith(RowsInventory, {SEEDED_STATUSES}) /\ [][HandleExtractInventoryNumbers]_vars

\* The tokens found in the path fields of a record that are not deny-listed.
UsableTokens(r) ==
  LET matches == findall(r.file_folder_name \o <<"/">> \o r.sub_folder_name
                         \o <<"/">> \o r.file_name, 1)
  IN  {matches[i] : i \in 1..Len(matches)} \ {<<"T", "0", "1">>, <<"F", "E", "3", "0", "1", "8", "T">>}

(***************************************************************************)
(* C18: after extract_inventory_numbers a record whose path fields hold no *)
(* match, or only deny-listed matches, has the inventory_number it had and *)
(* is not in the list of updated records; every record of that list has a  *)
(* non-empty inventory_number.                                             *)
(***************************************************************************)
C18_NoMatchLeavesRecord ==
  last = "extract_inventory_numbers" =>
    /\ Len(store) = Len(before)
    /\ \A k \in 1..Len(before) :
         UsableTokens(before[k]) = {} =>
           /\ store[k] = before[k]
           /\ \A i \in 1..Len(out) : out[i].id # before[k].id
    /\ \A i \in 1..Len(out) : out[i].inventory_number # EMPTY

\* A live run has updated one record and has left alone a record with no match
\* and a record marked invalid whose only match is deny-listed.
C18_Witness ==
  /\ last = "extract_inventory_numbers"
  /\ ~dry_run
  /\ Len(out) = 1
  /\ out[1].inventory_number = <<"M", "1", "2", "3", "|", "D", "V", "D", "4", "5", "A">>
  /\ \E k \in 1..Len(store) :
       store[k].file_name = FILE1 /\ store[k].inventory_number = EMPTY
  /\ \E k \in 1..Len(store) :
       store[k].file_name = TITLE_T01 /\ store[k].inventory_number = INVALID_NUMBER

(***************************************************************************)
(* parse_status_info, in import_status_and_inventory_numbers.py and in     *)
(* import_status_info.py.  The value is the tuple of ItemStatus ids in the *)
(* order of the table; the argument is a string or None (an empty cell of  *)
(* the sheet).  The older function has no test for None and fails on it;   *)
(* its command drops the rows without status info before it applies the    *)
(* function.                                                               *)
(***************************************************************************)
status_info_to_model_id_map ==
  <<<<<<"I", "n", "v", "e", "n", "t", "o", "r", "y", " ", "n", "u", "m", "b", "e", "r", " ", "i", "n", " ", "f", "i", "l", "e", "n", "a", "m", "e", " ", "i", "s", " ", "i", "n", "c", "o", "r", "r", "e", "c", "t">>, 1>>,
    <<<<"D", "u", "p", "l", "i", "c", "a", "t", "e", "d", " ", "i", "n", " ", "S", "o", "u", "r", "c", "e", " ", "D", "a", "t", "a">>, 2>>,
    <<<<"i", "n", "v", "a", "l", "i", "d", " ", "v", "a", "u", "l", "t">>, 3>>,
    <<<<"i", "n", "v", "a", "l", "i", "d", " ", "i", "n", "v", "e", "n", "t", "o", "r", "y", "_", "n", "o">>, 4>>,
    <<<<"P", "r", "e", "s", "e", "n", "c", "e", " ", "o", "f", " ", "m", "u", "l", "t", "i", "p", "l", "e", " ", "I", "n", "v", "e", "n", "t", "o", "r", "y", "_", "n", "o", "s">>, 5>>,
    <<<<"M", "u", "l", "t", "i", "p", "l", "e", " ", "c", "o", "r", "r", "e", "s", "p", "o", "n", "d", "i", "n", "g", " ", "I", "n", "v", "e", "n", "t", "o", "r", "y", "_", "n", "o", " ", "i", "n", " ", "P", "D">>, 6>>>>

RECURSIVE scan_status_info(_, _, _, _)
scan_status_info(table, i, status_info, status_id_list) ==
  IF i > Len(table) THEN status_id_list
  ELSE IF Contains(ToLower(status_info), ToLower(table[i][1]))
       THEN scan_status_info(table, i + 1, status_info, Append(status_id_list, table[i][2]))
       ELSE scan_status_info(table, i + 1, status_info, status_id_list)

\* Mutant: the substrings are looked for as they are written in the table.
RECURSIVE scan_status_info_case_sensitive(_, _, _, _)
scan_status_info_case_sensitive(table, i, status_info, status_id_list) ==
  IF i > Len(table) THEN status_id_list
  ELSE IF Contains(status_info, table[i][1])
       THEN scan_status_info_case_sensitive(table, i + 1, status_info,
                                            Append(status_id_list, table[i][2]))
       ELSE scan_status_info_case_sensitive(table, i + 1, status_info, status_id_list)

parse_status_info_case_sensitive(status_info) ==
  IF ~Truthy(status_info)
  THEN [ids |-> <<>>, error |-> FALSE]
  ELSE [ids |-> scan_status_info_case_sensitive(status_info_to_model_id_map, 1,
                                                status_info, <<>>),
        error |-> FALSE]

\* import_status_and_inventory_numbers.py
parse_status_info(status_info) ==
  IF ~Truthy(status_info)
  THEN [ids |-> <<>>, error |-> FALSE]
  ELSE [ids |-> scan_status_info(status_info_to_model_id_map, 1, status_info, <<>>),
        error |-> FALSE]

\* import_status_info.py: None has no lower().
import_status_info_parse_status_info(status_info) ==
  IF status_info = None
  THEN [ids |-> <<>>, error |-> TRUE]
  ELSE [ids |-> scan_status_info(status_info_to_model_id_map, 1, status_info, <<>>),
        error |-> FALSE]

(***************************************************************************)
(* The classifier called on one text: two parts, each one a table entry as *)
(* written, in another letter case, cut short, or nothing, after an        *)
(* optional "YES: "; the text of the test with three entries; None.        *)
(***************************************************************************)
StatusFragments ==
  {EMPTY,
   <<"I", "n", "v", "e", "n", "t", "o", "r", "y", " ", "n", "u", "m", "b", "e", "r", " ", "i", "n", " ", "f", "i", "l", "e", "n", "a", "m", "e", " ", "i", "s", " ", "i", "n", "c", "o", "r", "r", "e", "c", "t">>,
   <<"i", "n", "v", "e", "n", "t", "o", "r", "y", " ", "N", "u", "m", "b", "e", "r", " ", "i", "n", " ", "f", "i", "l", "e", "n", "a", "m", "e", " ", "i", "s", " ", "i", "n", "c", "o", "r", "r", "e", "c", "t">>,
   <<"D", "u", "p", "l", "i", "c", "a", "t", "e", "d", " ", "i", "n", " ", "S", "o", "u", "r", "c", "e", " ", "D", "a", "t", "a">>, <<"D", "U", "P", "L", "I", "C", "A", "T", "E", "D", " ", "I", "N", " ", "S", "O", "U", "R", "C", "E", " ", "D", "A", "T", "A">>,
   <<"i", "n", "v", "a", "l", "i", "d", " ", "v", "a", "u", "l", "t">>, <<"I", "n", "v", "a", "l", "i", "d", " ", "V", "a", "u", "l", "t">>, <<"i", "n", "v", "a", "l", "i", "d", " ", "v", "a", "u", "l">>,
   <<"i", "n", "v", "a", "l", "i", "d", " ", "i", "n", "v", "e", "n", "t", "o", "r", "y", "_", "n", "o">>, <<"i", "n", "v", "a", "l", "i", "d", " ", "I", "n", "v", "e", "n", "t", "o", "r", "y", "_", "n", "o">>, <<"i", "n", "v", "a", "l", "i", "d", " ", "i", "n", "v", "e", "n", "t", "o", "r", "y", " ", "n", "o">>,
   <<"P", "r", "e", "s", "e", "n", "c", "e", " ", "o", "f", " ", "m", "u", "l", "t", "i", "p", "l", "e", " ", "I", "n", "v", "e", "n", "t", "o", "r", "y", "_", "n", "o", "s">>, <<"p", "r", "e", "s", "e", "n", "c", "e", " ", "o", "f", " ", "m", "u", "l", "t", "i", "p", "l", "e", " ", "i", "n", "v", "e", "n", "t", "o", "r", "y", "_", "n", "o", "s">>,
   <<"M", "u", "l", "t", "i", "p", "l", "e", " ", "c", "o", "r", "r", "e", "s", "p", "o", "n", "d", "i", "n", "g", " ", "I", "n", "v", "e", "n", "t", "o", "r", "y", "_", "n", "o", " ", "i", "n", " ", "P", "D">>,
   <<"m", "u", "l", "t", "i", "p", "l", "e", " ", "c", "o", "r", "r", "e", "s", "p", "o", "n", "d", "i", "n", "g", " ", "I", "n", "v", "e", "n", "t", "o", "r", "y", "_", "n", "o", " ", "i", "n", " ", "p", "d">>}

StatusInputs ==
  {lead \o a \o sep \o b :
     lead \in {EMPTY, <<"Y", "E", "S", ":", " ">>}, a \in StatusFragments,
     sep \in {EMPTY, <<";", " ">>}, b \in StatusFragments}
  \cup {<<"Y", "E", "S", ":", " ", "i", "n", "v", "a", "l", "i", "d", " ", "v", "a", "u", "l", "t", " ", "(", "i", "n", "v", "a", "l", "i", "d", " ", "i", "n", "v", "e", "n", "t", "o", "r", "y", "_", "n", "o", ")", ";", " ", "D", "u", "p", "l", "i", "c", "a", "t", "e", "d", " ", "i", "n", " ", "S", "o", "u", "r", "c", "e", " ", "D", "a", "t", "a">>, None}

CallParseStatusInfo == Apply("parse_status_info", parse_status_info(arg))

\* tapes_data.dropna(subset=["Requires Manual Intervention"]) comes first.
CallImportStatusInfoParse ==
  /\ arg # None
  /\ Apply("import_status_info.parse_status_info", import_status_info_parse_status_info(arg))

SpecStatus ==
  InitCall(StatusInputs) /\ [][CallParseStatusInfo \/ CallImportStatusInfoParse]_vars

\* Two characters that are the same letter in either case, or the same character.
SameLetter(a, b) ==
  a = b \/ \E k \in 1..26 : {a, b} = {UpperLetters[k], LowerLetters[k]}

\* sub occurs in text when the case of the letters is disregarded.
OccursIn(text, sub) ==
  \E q \in 0..(Len(text) - Len(sub)) :
    \A i \in 1..Len(sub) : SameLetter(text[q + i], sub[i])

\* The substring and the tag of each status.
StatusTable ==
  {<<<<"I", "n", "v", "e", "n", "t", "o", "r", "y", " ", "n", "u", "m", "b", "e", "r", " ", "i", "n", " ", "f", "i", "l", "e", "n", "a", "m", "e", " ", "i", "s", " ", "i", "n", "c", "o", "r", "r", "e", "c", "t">>, 1>>,
   <<<<"D", "u", "p", "l", "i", "c", "a", "t", "e", "d", " ", "i", "n", " ", "S", "o", "u", "r", "c", "e", " ", "D", "a", "t", "a">>, 2>>,
   <<<<"i", "n", "v", "a", "l", "i", "d", " ", "v", "a", "u", "l", "t">>, 3>>,
   <<<<"i", "n", "v", "a", "l", "i", "d", " ", "i", "n", "v", "e", "n", "t", "o", "r", "y", "_", "n", "o">>, 4>>,
   <<<<"P", "r", "e", "s", "e", "n", "c", "e", " ", "o", "f", " ", "m", "u", "l", "t", "i", "p", "l", "e", " ", "I", "n", "v", "e", "n", "t", "o", "r", "y", "_", "n", "o", "s">>, 5>>,
   <<<<"M", "u", "l", "t", "i", "p", "l", "e", " ", "c", "o", "r", "r", "e", "s", "p", "o", "n", "d", "i", "n", "g", " ", "I", "n", "v", "e", "n", "t", "o", "r", "y", "_", "n", "o", " ", "i", "n", " ", "P", "D">>, 6>>}

\* The tags of the table whose substring occurs in the text.
TagsOf(text) ==
  IF text = <<"<None>">> THEN {}
  ELSE {t[2] : t \in {t \in StatusTable : OccursIn(text, t[1])}}

INVALID_INV_NO == "Invalid inv no"

\* Mutant: the status set of a record is replaced by the one status.
set_empty_inv_no_status_replace(st, statuses) ==
  LET records == SelectSeq(st, LAMBDA r : r.inventory_number = EMPTY)
      records_to_update == SelectSeq(records, LAMBDA r : INVALID_INV_NO \notin r.status)
      to_update == {records_to_update[i].id : i \in 1..Len(records_to_update)}
  IN  IF records = <<>>
      THEN [store |-> st, count |-> 0, error |-> FALSE, added |-> <<>>]
      ELSE IF INVALID_INV_NO \notin statuses
      THEN [store |-> st, count |-> 0, error |-> TRUE, added |-> <<>>]
      ELSE [store |-> [k \in 1..Len(st) |->
                         IF st[k].id \in to_update
                         THEN [st[k] EXCEPT !.status = {INVALID_INV_NO}]
                         ELSE st[k]],
            count |-> 0,
            error |-> FALSE,
            added |-> [i \in 1..Len(records_to_update) |-> records_to_update[i].id]]

set_empty_inv_no_status(st, statuses) ==
  LET records == SelectSeq(st, LAMBDA r : r.inventory_number = EMPTY)
      records_to_update == SelectSeq(records, LAMBDA r : INVALID_INV_NO \notin r.status)
      to_update == {records_to_update[i].id : i \in 1..Len(records_to_update)}
  IN  IF records = <<>>
      THEN [store |-> st, count |-> 0, error |-> FALSE, added |-> <<>>]
      ELSE IF INVALID_INV_NO \notin statuses
      THEN [store |-> st, count |-> 0, error |-> TRUE, added |-> <<>>]
      ELSE [store |-> [k \in 1..Len(st) |->
                         IF st[k].id \in to_update
                         THEN [st[k] EXCEPT !.status = @ \cup {INVALID_INV_NO}]
                         ELSE st[k]],
            count |-> 0,
            error |-> FALSE,
            added |-> [i \in 1..Len(records_to_update) |-> records_to_update[i].id]]

\* Records with an empty, a whitespace and a set inventory number, with and
\* without the status and with other statuses.
RowsInvNo ==
  {WithStatus(WithInventoryNumber(Row(EMPTY, EMPTY, EMPTY, EMPTY, EMPTY, EMPTY, FILE1, EMPTY),
                                  number), tags) :
     number \in {EMPTY, SPACE, OLD_NUMBER},
     tags \in {{}, {NEEDS_REVIEW}, {INVALID_INV_NO}, {INVALID_INV_NO, "Invalid vault"}}}

\* manage.py set_empty_inv_no_status, which can be run again.
CallSetEmptyInvNoStatus ==
  /\ pc = "idle"
  /\ LET result == set_empty_inv_no_status(store, catalog)
     IN  /\ store' = result.store
         /\ out' = result.added
         /\ pc' = IF result.error THEN "error" ELSE pc
  /\ before' = store
  /\ last' = "set_empty_inv_no_status"
  /\ UNCHANGED <<start, ret, run, trace, dry_run, catalog, arg>>

SpecInvNo ==
  /\ InitWith(RowsInvNo, {SEEDED_STATUSES, SEEDED_STATUSES \ {INVALID_INV_NO}})
  /\ [][CallSetEmptyInvNoStatus]_vars

(***************************************************************************)
(* C20: after a run of set_empty_inv_no_status that returned, every record *)
(* is the record it was, with "Invalid inv no" added to its status set     *)
(* when its inventory_number is the empty string and the same status set   *)
(* otherwise; the status was added once each to records that did not have  *)
(* it, and to no record that had it.                                       *)
(***************************************************************************)
C20_EmptyInvNoStatus ==
  (last = "set_empty_inv_no_status" /\ pc # "error") =>
    /\ Len(store) = Len(before)
    /\ \A k \in 1..Len(store) :
         /\ store[k] = [before[k] EXCEPT !.status =
                          IF before[k].inventory_number = <<>>
                          THEN @ \cup {"Invalid inv no"} ELSE @]
         /\ before[k].inventory_number = <<>> => "Invalid inv no" \in store[k].status
         /\ "Invalid inv no" \in before[k].status =>
              \A i \in 1..Len(out) : out[i] # before[k].id
    /\ \A i \in 1..Len(out) : \A j \in 1..Len(out) : out[i] = out[j] => i = j

\* A run has added the status to a record that carried "Needs review", and has
\* passed over a record that had the status and a record with a number.
C20_Witness ==
  /\ last = "set_empty_inv_no_status"
  /\ pc # "error"
  /\ Len(out) = 1
  /\ \E k \in 1..Len(store) :
       /\ before[k].status = {"Needs review"}
       /\ store[k].status = {"Needs review", "Invalid inv no"}
       /\ out[1] = store[k].id
  /\ \E k \in 1..Len(store) :
       /\ before[k].inventory_number = <<>>
       /\ before[k].status = {"Invalid inv no", "Invalid vault"}
  /\ \E k \in 1..Len(store) :
       /\ store[k].inventory_number = OLD_NUMBER
       /\ store[k].status = {}

\* The records of `from` that are gone from st or held differently in it.
ChangedOrDeleted(from, st) ==
  {k \in 1..Len(from) : \A j \in 1..Len(st) : st[j] # from[k]}

(***************************************************************************)
(* C21: the integer a pass returns is the number of records the pass       *)
(* changed or deleted: the records of the store before the call that are   *)
(* not in the store after it as they were.                                 *)
(***************************************************************************)
C21_CountsAreChangeCounts ==
  (last \in Passes /\ pc # "error") => ret = Cardinality(ChangedOrDeleted(before, store))

(***************************************************************************)
(* Pass D on its own and inside runs of handle, on stores with drive       *)
(* markers, records inside and outside the query of pass D that hold both  *)
(* carriers, records that miss carriers, a header and a record that is     *)
(* empty but for whitespace in its carriers.                               *)
(***************************************************************************)
RowsScope ==
  {Row(DL1, EMPTY, EMPTY, EMPTY, EMPTY, EMPTY, FILE1, EMPTY),
   Row(EMPTY, TAPE_A1, EMPTY, TAPE_B1, EMPTY, EMPTY, FILE1, EMPTY),
   Row(EMPTY, EMPTY, EMPTY, EMPTY, EMPTY, EMPTY, FILE1, EMPTY),
   Row(EMPTY, TAPE_A2, DIGITAL_LAB, TAPE_B2, EMPTY, EMPTY, FILE1, EMPTY),
   Row(EMPTY, EMPTY, DIGITAL_LAB, EMPTY, EMPTY, EMPTY, FILE1, EMPTY),
   Row(EMPTY, TAPE_A2, EMPTY, TAPE_B2, HEADER_FOLDER_NAME, EMPTY, EMPTY, EMPTY),
   Row(LOWER5, TAPE_A2, EMPTY, TAPE_B2, EMPTY, EMPTY, FILE1, EMPTY),
   Row(EMPTY, SPACE, EMPTY, SPACE, EMPTY, EMPTY, EMPTY, EMPTY)}

SpecScope ==
  InitWith(RowsScope, {SEEDED_STATUSES}) /\ [][Next \/ CallSetCarrierInfo]_vars

\* The record is outside the query of pass D.
OutOfCarrierScope(r) ==
  ~Blank(r.hard_drive_name) \/ r.carrier_a_location = DIGITAL_LAB

\* The record of the store the run started on with the id of r had another
\* hard_drive_name: an earlier pass of the run gave r its drive name.
GivenDriveName(r) ==
  \E j \in 1..Len(start) :
    start[j].id = r.id /\ start[j].hard_drive_name # r.hard_drive_name

(***************************************************************************)
(* C22: pass D leaves every record with a non-blank hard_drive_name or     *)
(* with carrier_a_location "Digital Lab" as it was; a record it changes    *)
(* takes its carriers from the nearest earlier record that is inside the   *)
(* query, not empty, not a header and holds both carriers, and when there  *)
(* is no such record nothing is changed; in a run of handle no record      *)
(* whose drive name was set by pass B is changed by pass D.                *)
(***************************************************************************)
C22_CarrierScope ==
  last = "set_carrier_info" =>
    /\ Len(store) = Len(before)
    /\ \A k \in 1..Len(before) :
         /\ OutOfCarrierScope(before[k]) => store[k] = before[k]
         /\ CarrierAnchors(before, k) = {} => store[k] = before[k]
         /\ store[k] # before[k] =>
              LET j == Max(CarrierAnchors(before, k))
              IN  /\ ~OutOfCarrierScope(before[j])
                  /\ store[k].carrier_a \in {before[k].carrier_a, before[j].carrier_a}
                  /\ store[k].carrier_b \in {before[k].carrier_b, before[j].carrier_b}
         /\ (pc = "delete_header_records" /\ GivenDriveName(before[k]))
              => store[k] = before[k]

\* In a run of handle pass B gave a drive name to a record without carriers
\* that follows a record holding both, and pass D has left it without them.
C22_Witness ==
  /\ last = "set_carrier_info"
  /\ pc = "delete_header_records"
  /\ CountOf("set_hard_drive_names") > 0
  /\ \E k \in 1..Len(store) :
       /\ GivenDriveName(store[k])
       /\ store[k].carrier_a = EMPTY
       /\ store[k].file_name = FILE1
       /\ \E j \in 1..(k - 1) :
            /\ store[j].carrier_a = TAPE_A1
            /\ store[j].carrier_b = TAPE_B1
            /\ store[j].hard_drive_name = EMPTY

(***************************************************************************)
(* Pass B on stores whose drive names are written as the pattern writes    *)
(* them, in lower case and in upper case.                                  *)
(***************************************************************************)
UPPER5 == <<"D", "I", "G", "I", "T", "A", "L", "L", "A", "B", " ", "5">>

RowsMarker ==
  {Row(hd, EMPTY, EMPTY, EMPTY, EMPTY, EMPTY, FILE1, EMPTY) :
     hd \in {EMPTY, DL1, DL2, LOWER5, UPPER5}}
  \cup {Row(EMPTY, EMPTY, EMPTY, EMPTY, HEADER_FOLDER_NAME, EMPTY, EMPTY, EMPTY)}

SpecMarker == InitWith(RowsMarker, {SEEDED_STATUSES}) /\ [][CallSetHardDriveNames]_vars

\* s starts with one of the two prefixes and a digit.
StartsWithDigitAfter(s, prefixes) ==
  \E p \in prefixes : StartsWith(s, p) /\ Len(s) > Len(p) /\ s[Len(p) + 1] \in Digits

\* "Digital Lab " or "DigitalLab " and a digit, in these letters.
MarkerAsWritten(s) == StartsWithDigitAfter(s, {<<"D", "i", "g", "i", "t", "a", "l", " ", "L", "a", "b", " ">>, <<"D", "i", "g", "i", "t", "a", "l", "L", "a", "b", " ">>})

\* The same in any letter case.
MarkerInAnyCase(s) == StartsWithDigitAfter(ToLower(s), {<<"d", "i", "g", "i", "t", "a", "l", " ", "l", "a", "b", " ">>, <<"d", "i", "g", "i", "t", "a", "l", "l", "a", "b", " ">>})

\* The record after record k is a plain data row: pass B gives it the name it
\* carries, when it carries one.
PlainRowAfter(st, k) ==
  /\ k < Len(st)
  /\ ~EmptyRecord(st[k + 1])
  /\ ~HeaderRecord(st[k + 1])
  /\ ~MarkerAsWritten(st[k + 1].hard_drive_name)

\* Pass B adopted the name of record k: the plain row after it holds it.
Adopted(k) == PlainRowAfter(before, k) => store[k + 1].hard_drive_name = before[k].hard_drive_name

RowsOrder ==
  {Row(DL1, EMPTY, EMPTY, EMPTY, EMPTY, EMPTY, FILE1, EMPTY),
   Row(DL2, EMPTY, EMPTY, EMPTY, EMPTY, EMPTY, EMPTY, EMPTY),
   Row(EMPTY, EMPTY, EMPTY, EMPTY, HEADER_FOLDER_NAME, EMPTY, EMPTY, EMPTY),
   Row(EMPTY, EMPTY, EMPTY, EMPTY, FOLDER1, EMPTY, EMPTY, EMPTY),
   Row(EMPTY, EMPTY, EMPTY, EMPTY, FOLDER2, SUB1, EMPTY, EMPTY),
   Row(EMPTY, EMPTY, EMPTY, EMPTY, EMPTY, EMPTY, FILE1, EMPTY),
   Row(EMPTY, TAPE_A1, EMPTY, TAPE_B1, EMPTY, EMPTY, FILE1, EMPTY),
   Row(EMPTY, TAPE_A2, EMPTY, TAPE_B2, EMPTY, SUB1, EMPTY, EMPTY),
   Row(EMPTY, EMPTY, EMPTY, EMPTY, EMPTY, EMPTY, EMPTY, EMPTY)}

SpecOrder ==
  InitWith(RowsOrder, {SEEDED_STATUSES})
    /\ [][CallSetHardDriveNames \/ CallSetFileFolderNames \/ CallSetCarrierInfo]_vars

\* The first n records of the store.
Prefix(st, n) == SubSeq(st, 1, n)

\* The pass of the given name run on a store.
PassOn(p, st) ==
  CASE p = "set_hard_drive_names" -> set_hard_drive_names(st)
    [] p = "set_file_folder_names" -> set_file_folder_names(st)
    [] p = "set_carrier_info" -> set_carrier_info(st)

(***************************************************************************)
(* C24: passes B, C and D do not look ahead.  What a pass does to the      *)
(* first n records of a store is what it does to the store made of these   *)
(* n records alone, for every n: the outcome for a record depends on the   *)
(* record and on the records with smaller id only, so two stores that      *)
(* agree up to a record give it the same outcome.                          *)
(***************************************************************************)
C24_NoLookAhead ==
  last \in {"set_hard_drive_names", "set_file_folder_names", "set_carrier_info"} =>
    \A n \in 0..Len(before) :
      PassOn(last, Prefix(before, n)).store = Prefix(store, n)

\* Pass B has run on a marker, a plain row and a second marker: the plain row
\* took the name of the marker before it, not of the one after it.
C24_Witness ==
  /\ last = "set_hard_drive_names"
  /\ Len(before) = 3
  /\ before[1].hard_drive_name = DL1
  /\ before[2].hard_drive_name = EMPTY
  /\ ~EmptyRecord(before[2])
  /\ ~HeaderRecord(before[2])
  /\ before[3].hard_drive_name = DL2
  /\ store[2].hard_drive_name = DL1
  /\ PassOn(last, Prefix(before, 2)).store = Prefix(store, 2)

\* The ids of the records whose carrier text is not empty and does not parse.
Unparsed(st, field) ==
  {st[k].id : k \in {k \in 1..Len(st) : st[k][field] # EMPTY /\ ~Parses(st[k][field])}}

(***************************************************************************)
(* C25: process_carrier_fields(field, update_records = False,              *)
(* report_problems = True) leaves the store as it was, returns 0, and      *)
(* writes to stdout the id of every record whose carrier text is not empty *)
(* and does not parse, once each and no other id; it goes through all      *)
(* records, whatever the number of those that do not parse.                *)
(***************************************************************************)
C25_CarrierReportOnly ==
  (last = "process_carrier_fields" /\ ~arg[2] /\ arg[3]) =>
    /\ store = before
    /\ ret = 0
    /\ pc # "error"
    /\ Len(out) = Cardinality(Unparsed(before, arg[1]))
    /\ {out[i] : i \in 1..Len(out)} = Unparsed(before, arg[1])

\* A report on carrier_b has named two records, the first of them before a
\* record whose text parses, and changed nothing.
C25_Witness ==
  /\ last = "process_carrier_fields"
  /\ arg = <<"carrier_b", FALSE, TRUE>>
  /\ Len(out) = 2
  /\ store = before
  /\ \E k \in 1..Len(store) :
       /\ store[k].carrier_b = ID_TO_VAULT
       /\ out[1] < store[k].id

(***************************************************************************)
(* C29: process_carrier_fields(field, update_records = True) called again  *)
(* right after such a call on the same field leaves every record, and so   *)
(* every carrier and carrier-location field, as the first call left it.    *)
(***************************************************************************)
C29_CarrierWriteBackIdempotent ==
  [][(/\ last = "process_carrier_fields"
      /\ last' = "process_carrier_fields"
      /\ arg[2] /\ arg'[2]
      /\ arg'[1] = arg[1]) => store' = store]_vars

\* A second write-back of carrier_a has run on a store where the first had
\* split a text into tape id and vault location, and has changed nothing.
C29_Witness ==
  /\ last = "process_carrier_fields"
  /\ run = 2
  /\ arg = <<"carrier_a", TRUE, FALSE>>
  /\ store = before
  /\ ret > 0
  /\ \E k \in 1..Len(store) :
       /\ store[k].carrier_a = <<"C", "L", "N", "U", "0", "0">>
       /\ store[k].carrier_a_location = <<"S", "2", "1", "7", "-", "0", "1", "A", "-", "1", "1", "A">>

\* The step is a run of the extract_inventory_numbers command.
ExtractRun == last' = "extract_inventory_numbers" /\ run' = run + 1

(***************************************************************************)
(* C26: a run of extract_inventory_numbers with --dry_run leaves the store *)
(* as it was, and the list of updated records it computes is the list the  *)
(* run that follows it, live or not, computes on that store.               *)
(***************************************************************************)
C26_DryRun ==
  [][ExtractRun =>
       /\ dry_run' => store' = store
       /\ (last = "extract_inventory_numbers" /\ dry_run) => (out' = out /\ ret' = ret)]_vars

\* A dry run has listed a record marked invalid with the number found in its
\* file name, and the record still holds the mark.
C26_Witness ==
  /\ last = "extract_inventory_numbers"
  /\ dry_run
  /\ store = before
  /\ \E i \in 1..Len(out) : \E k \in 1..Len(store) :
       /\ out[i].id = store[k].id
       /\ out[i].inventory_number = <<"M", "1", "2", "3">>
       /\ store[k].inventory_number = INVALID_NUMBER

\* The number is empty or holds "invalid" in any letter case.
WithoutInventoryNumber(r) ==
  r.inventory_number = EMPTY \/ OccursIn(r.inventory_number, <<"i", "n", "v", "a", "l", "i", "d">>)

(***************************************************************************)
(* C30: a run of extract_inventory_numbers changes only records whose      *)
(* inventory_number was empty or held "invalid", in any letter case, when  *)
(* the run started, and of these only the inventory_number; a live run     *)
(* that follows a live run finds no record to update.                      *)
(***************************************************************************)
C30_ExtractOnlyMissing ==
  [][ExtractRun =>
       /\ Len(store') = Len(store)
       /\ \A k \in 1..Len(store) :
            /\ store'[k] = [store[k] EXCEPT !.inventory_number = store'[k].inventory_number]
            /\ store'[k] # store[k] => WithoutInventoryNumber(store[k])
       /\ \A i \in 1..Len(out') : \E k \in 1..Len(store) :
            out'[i].id = store[k].id /\ WithoutInventoryNumber(store[k])
       /\ (last = "extract_inventory_numbers" /\ ~dry_run /\ ~dry_run')
            => (out' = <<>> /\ ret' = 0 /\ store' = store)]_vars

\* A second live run has found nothing to update on a store where the first
\* had replaced an invalid number, next to a record that kept its old number
\* although its file name holds another.
C30_Witness ==
  /\ last = "extract_inventory_numbers"
  /\ run = 2
  /\ ~dry_run
  /\ out = <<>>
  /\ \E k \in 1..Len(store) :
       /\ store[k].inventory_number = <<"M", "1", "2", "3">>
       /\ store[k].file_name = <<"M", "1", "2", "3">>
       /\ \E j \in 1..Len(start) :
            start[j].id = store[k].id /\ start[j].inventory_number = INVALID_NUMBER
  /\ \E k \in 1..Len(store) : store[k].inventory_number = OLD_NUMBER

(***************************************************************************)
(* Runs of handle on stores that hold empty records, a header, drive       *)
(* markers alone and with a file name, a drive name with a trailing space, *)
(* data rows with and without carriers, a row with whitespace notes and a  *)
(* header that holds a file name.                                          *)
(***************************************************************************)
RowsPipeline ==
  {Row(EMPTY, EMPTY, EMPTY, EMPTY, EMPTY, EMPTY, EMPTY, EMPTY),
   Row(EMPTY, EMPTY, EMPTY, EMPTY, EMPTY, EMPTY, EMPTY, SPACE),
   Row(EMPTY, EMPTY, EMPTY, EMPTY, HEADER_FOLDER_NAME, EMPTY, EMPTY, EMPTY),
   Row(DL1, EMPTY, EMPTY, EMPTY, EMPTY, EMPTY, EMPTY, EMPTY),
   Row(DL1, EMPTY, EMPTY, EMPTY, EMPTY, EMPTY, FILE1, EMPTY),
   Row(DRIVE_PADDED, EMPTY, EMPTY, EMPTY, EMPTY, EMPTY, EMPTY, EMPTY),
   Row(EMPTY, EMPTY, EMPTY, EMPTY, EMPTY, EMPTY, FILE1, EMPTY),
   Row(EMPTY, TAPE_A1, EMPTY, TAPE_B1, FOLDER1, SUB1, EMPTY, EMPTY),
   Row(EMPTY, EMPTY, EMPTY, EMPTY, EMPTY, SPACE, FILE1, SPACE),
   Row(EMPTY, EMPTY, EMPTY, EMPTY, HEADER_FOLDER_NAME, EMPTY, FILE1, EMPTY)}

SpecPipeline == InitWith(RowsPipeline, {SEEDED_STATUSES}) /\ [][Next]_vars

\* Passes B, C and D keep the records, the headers and the empty records.
KeepsRecordKinds ==
  last \in {"set_hard_drive_names", "set_file_folder_names", "set_carrier_info"} =>
    /\ Len(store) = Len(before)
    /\ \A k \in 1..Len(store) :
         /\ store[k].id = before[k].id
         /\ EmptyRecord(store[k]) <=> EmptyRecord(before[k])
         /\ HeaderRecord(store[k]) <=> HeaderRecord(before[k])

(***************************************************************************)
(* C27: when a run of handle is done the store holds no empty record, no   *)
(* header record and no record whose only non-blank field is               *)
(* hard_drive_name; passes B, C and D delete no record and neither create  *)
(* nor remove a header or an empty record.                                 *)
(***************************************************************************)
C27_PipelinePostcondition ==
  /\ pc = "done" =>
       \A k \in 1..Len(store) :
         /\ ~EmptyRecord(store[k])
         /\ ~HeaderRecord(store[k])
         /\ ~HardDriveOnly(store[k])
  /\ KeepsRecordKinds

\* A record that is not a header and names a sub-folder or a file.
DataRow(r) ==
  /\ ~HeaderRecord(r)
  /\ ~Blank(r.sub_folder_name) \/ ~Blank(r.file_name)

(***************************************************************************)
(* C28: no step of a run of handle deletes a record that is not a header   *)
(* and has a sub_folder_name or a file_name that is not blank after        *)
(* trimming; a record that a step deletes is an empty record, a header     *)
(* record or a record with nothing non-blank besides hard_drive_name.      *)
(***************************************************************************)
C28_DataRowsSurvive ==
  [][\A k \in 1..Len(store) :
       /\ DataRow(store[k]) => store[k].id \in Ids(store')
       /\ store[k].id \notin Ids(store') =>
            \/ EmptyRecord(store[k])
            \/ HeaderRecord(store[k])
            \/ HardDriveOnly(store[k])]_vars

\* A run is done in which passes E and F each deleted a record, and the
\* record with a file name, which pass B gave a drive name, is still in the
\* store.
C28_Witness ==
  /\ pc = "done"
  /\ CountOf("delete_header_records") > 0
  /\ CountOf("delete_hard_drive_only_records") > 0
  /\ Len(start) = 3
  /\ Len(store) = 1
  /\ DataRow(store[1])
  /\ store[1].hard_drive_name = DL1
  /\ \E j \in 1..Len(start) :
       start[j].id = store[1].id /\ start[j].hard_drive_name = EMPTY
====
